---- MODULE Spec2Model ----
(***************************************************************************)
(* ArXiv research chatbot: the conversation engine (core/chatbot.py), the  *)
(* tool runner and registry (core/tool_executor.py), the two paper tools   *)
(* (tools/arxiv_tools.py) and the program entry point (main.py).           *)
(*                                                                         *)
(* Strings are sequences of atoms: an atom is either one character, such   *)
(* as " " or "q", or an opaque chunk of non-blank text, such as "p1".      *)
(* Messages built with f-strings are the concatenation of their parts.     *)
(***************************************************************************)
EXTENDS Integers, Sequences, FiniteSets, TLC

VARIABLES
    pc,                 \* position of the single thread of control
    TOOL_SCHEMAS,       \* names declared by tools/schemas.py
    enable_audit,       \* config.enable_audit_logging
    audit_logger,       \* ArxivChatbot.audit_logger: "unset", "None" or "logger"
    caller,             \* who called process_query: "chat_loop" or "direct"
    query,              \* the argument of process_query
    messages,           \* the message sequence of the running query
    response,           \* the model response being processed
    callNo,             \* number of the model call that produced response
    assistant_content,  \* segments accumulated in the current pass
    has_tool_calls,     \* flag of the current pass
    tool_result,        \* string returned by _execute_tool
    error,              \* the exception in flight, or NoError
    store,              \* the paper store: directory name -> partition file
    out,                \* lines written with print() since the last input was taken
    modelCalls,         \* model calls made since the current call started
    toolRuns,           \* what _execute_tool did since the current call started
    auditEvents,        \* audit events written since the current call started
    errlog,             \* messages given to logger.error by chatbot.py and main.py
    outcome,            \* how the last process_query call ended
    user_input,         \* what input() returned to the interactive loop
    lastCall,           \* the last call made straight to the tool runner or to a helper
    lastWrite,          \* what the last successful search wrote: directory and records
    sess,               \* two sessions searching side by side: where each one stands
    log_writable,       \* whether the try block of _write_event goes through
    request,            \* what the last model call of the current query was given
    auditLog            \* the audit module: its global logger, the handler, the lines written

\* the variables of the conversation engine
chatVars == <<pc, TOOL_SCHEMAS, enable_audit, audit_logger, caller, query, messages,
              response, callNo, assistant_content, has_tool_calls, tool_result,
              error, out, modelCalls, toolRuns, auditEvents, errlog, outcome,
              user_input, request>>

\* the variables of direct calls to the tools and helpers, and the state of
\* the audit log file, which no step of the program changes
toolVars == <<lastCall, lastWrite, sess, log_writable, auditLog>>

vars == <<pc, TOOL_SCHEMAS, enable_audit, audit_logger, caller, query, messages,
          response, callNo, assistant_content, has_tool_calls, tool_result,
          error, store, out, modelCalls, toolRuns, auditEvents, errlog, outcome,
          user_input, lastCall, lastWrite, sess, log_writable, request, auditLog>>

----------------------------------------------------------------------------
(* Bounds of the model *)

\* longest model response, in segments
MaxSegs == 3
\* most model calls the model lets one query make
MaxCalls == 3

----------------------------------------------------------------------------
(* Strings *)

Blank == {" ", "\t"}

RECURSIVE LStrip(_)
LStrip(s) == IF s # <<>> /\ Head(s) \in Blank THEN LStrip(Tail(s)) ELSE s

RECURSIVE RStrip(_)
RStrip(s) ==
    IF s # <<>> /\ s[Len(s)] \in Blank THEN RStrip(SubSeq(s, 1, Len(s) - 1)) ELSE s

\* no stripping at all, as in a test of the raw string
Strip_Identity(s) == s

\* str.strip()
Strip(s) == RStrip(LStrip(s))

LowerChar(c) ==
    CASE c = "Q" -> "q"
      [] c = "U" -> "u"
      [] c = "I" -> "i"
      [] c = "T" -> "t"
      [] c = "E" -> "e"
      [] c = "X" -> "x"
      [] c = "H" -> "h"
      [] OTHER -> c

\* str.lower()
Lower(s) == [i \in 1..Len(s) |-> LowerChar(s[i])]

\* e is one of the parts of string s
Contains(s, e) == \E i \in 1..Len(s) : s[i] = e

\* string t occurs in string s as a contiguous run of atoms
HasSubstring(s, t) ==
    \E i \in 0..(Len(s) - Len(t)) : SubSeq(s, i + 1, i + Len(t)) = t

----------------------------------------------------------------------------
(* Exceptions *)

NoError == [type |-> "none", msg |-> <<>>]

Exc(t, m) == [type |-> t, msg |-> m]

\* a handler that catches ToolExecutionError only
ToolExecutorErrors_Narrow == {"ToolExecutionError"}

\* the classes derived from ToolExecutorError, which _execute_tool catches
ToolExecutorErrors == {"ToolExecutorError", "ToolNotFoundError", "ToolExecutionError"}

----------------------------------------------------------------------------
(* The paper store and the two tools (tools/arxiv_tools.py, config.py) *)

\* a mapping with no key, as json.load gives for "{}" and _load_papers_info for a bad file
EmptyMap == [k \in {} |-> <<>>]

\* the new mapping alone: what was loaded is dropped
Merge_Replace(old, new) == new

\* dict.update for one mapping over another: keys of new win
Merge(old, new) ==
    [k \in (DOMAIN old) \cup (DOMAIN new) |-> IF k \in DOMAIN new THEN new[k] ELSE old[k]]

\* topic.lower().replace(" ", "_").replace("/", "_")
get_topic_dir(topic) ==
    [i \in 1..Len(topic) |->
        IF LowerChar(topic[i]) \in {" ", "/"} THEN "_" ELSE LowerChar(topic[i])]

\* a directory of the store without its papers_info.json
NoFile == [file |-> "missing", data |-> EmptyMap]

\* Path.mkdir(parents=True, exist_ok=True) of a topic directory
Mkdir(st, dir) ==
    [d \in (DOMAIN st) \cup {dir} |-> IF d \in DOMAIN st THEN st[d] ELSE NoFile]

\* The papers_info.json of a directory is "missing", "ok" (a JSON mapping,
\* held in data), "bad_json" (text json cannot parse) or "undecodable" (bytes
\* that are not UTF-8).

\* open() and json.load raise what the except clause does not name
LoadRaises(part) == part.file = "undecodable"

\* the message of the UnicodeDecodeError
DecodeErrorMsg == <<"'utf-8' codec can't decode byte">>

\* what _load_papers_info returns when it returns
_load_papers_info(part) == IF part.file = "ok" THEN part.data ELSE EmptyMap

\* nothing is written
_save_papers_info_Skip(st, dir, papers_info) == st

_save_papers_info(st, dir, papers_info) ==
    [st EXCEPT ![dir] = [file |-> "ok", data |-> papers_info]]

\* the records of the papers the index returned, keyed by id; a later paper
\* with the same id replaces an earlier one, as the loop's assignment does
RECURSIVE Retrieved(_)
Retrieved(papers) ==
    IF papers = <<>> THEN EmptyMap
    ELSE LET n == Len(papers)
             last == papers[n]
         IN  Merge(Retrieved(SubSeq(papers, 1, n - 1)),
                   [k \in {last.id} |-> last.rec])

\* paper_ids, in retrieval order
PaperIdsOf(papers) == [i \in 1..Len(papers) |-> papers[i].id]

\* the except clauses at the end of search_papers
SearchWrap(topic, kind, msg) ==
    IF kind = "ArxivError"
    THEN Exc("PaperSearchError",
             <<"ArXiv API error while searching for '">> \o topic \o <<"': ">> \o msg)
    ELSE Exc("PaperSearchError",
             <<"Unexpected error while searching for papers on '">> \o topic
                \o <<"': ">> \o msg)

\* the underlying message of a failed query to the paper index
IndexFailureMessage == <<"index unavailable">>

\* what was retrieved before the failure is saved
StoreAfterFailure_SavePartial(made, topic_dir, papers_info, idx) ==
    _save_papers_info(made, topic_dir, Merge(papers_info, Retrieved(idx.papers)))

\* the store when the index fails while the papers are retrieved: the
\* records are in papers_info in memory only, the save is not reached
StoreAfterFailure(made, topic_dir, papers_info, idx) == made

\* a range test that lets 0 through
CapOutOfRange_ZeroAllowed(max_results) == max_results < 0 \/ max_results > 20

\* the range test on max_results
CapOutOfRange(max_results) == max_results <= 0 \/ max_results > 20

\* search_papers(topic, max_results) against store st, when the paper index
\* answers idx: [fail |-> "none" | "ArxivError" | "Exception", papers |-> ...]
search_papers(topic, max_results, st, idx) ==
    IF Strip(topic) = <<>>
    THEN [raised |-> TRUE, value |-> <<>>, store |-> st, queried |-> FALSE,
          exc |-> SearchWrap(topic, "Exception", <<"Topic cannot be empty">>)]
    ELSE IF CapOutOfRange(max_results)
    THEN [raised |-> TRUE, value |-> <<>>, store |-> st, queried |-> FALSE,
          exc |-> SearchWrap(topic, "Exception",
                             <<"max_results must be between 1 and 20">>)]
    ELSE LET topic_dir == get_topic_dir(topic)
             made == Mkdir(st, topic_dir)
             papers_info == _load_papers_info(made[topic_dir])
         IN  IF LoadRaises(made[topic_dir])
             THEN [raised |-> TRUE, value |-> <<>>, store |-> made, queried |-> FALSE,
                   exc |-> SearchWrap(topic, "Exception", DecodeErrorMsg)]
             ELSE IF idx.fail # "none"
             THEN [raised |-> TRUE, value |-> <<>>, queried |-> TRUE,
                   store |-> StoreAfterFailure(made, topic_dir, papers_info, idx),
                   exc |-> SearchWrap(topic, idx.fail, IndexFailureMessage)]
             ELSE [raised |-> FALSE, value |-> PaperIdsOf(idx.papers),
                   store |-> _save_papers_info(made, topic_dir,
                                               Merge(papers_info, Retrieved(idx.papers))),
                   queried |-> TRUE, exc |-> NoError]

\* json.dumps(record, indent=2) of one paper record
JsonDump(rec) ==
    <<"{", "title: ", rec.title, "authors: ", rec.authors, "summary: ", rec.summary,
      "pdf_url: ", rec.pdf_url, "published: ", rec.published, "}">>

\* a fixed sentence that leaves the id out
NotFoundText_NoId(paper_id) == <<"No saved information found.">>

NotFoundText(paper_id) ==
    <<"No saved information found for paper ">> \o paper_id \o <<".">>

\* The store is keyed by the last component of config.paper_dir / name. Two
\* names are not those of a child: "." gives the root itself and ".." gives
\* the directory above the root.
RootDir == <<".">>
ParentDir == <<".", ".">>

\* config.paper_dir.iterdir(): the entries inside the root
iterdir(st) == (DOMAIN st) \ {RootDir, ParentDir}

\* extract_info(paper_id): the strings it can return. iterdir() lists the
\* topic directories in no fixed order, so any partition holding the id can
\* be the first match. A directory without the file is passed over, and so is
\* a file whose reading raises. A root that does not exist gives the same
\* string as a root that lists no directory.
extract_info(paper_id, st) ==
    IF Strip(paper_id) = <<>> THEN {<<"Paper ID cannot be empty.">>}
    ELSE LET hits == {d \in iterdir(st) :
                         /\ st[d].file # "missing"
                         /\ ~LoadRaises(st[d])
                         /\ paper_id \in DOMAIN _load_papers_info(st[d])}
         IN  IF hits = {} THEN {NotFoundText(paper_id)}
             ELSE {JsonDump(_load_papers_info(st[d])[paper_id]) : d \in hits}

----------------------------------------------------------------------------
(* The tool registry and runner (core/tool_executor.py) *)

\* the keys of ToolExecutor._tool_mapping, in insertion order
available_tools == <<"search_papers", "extract_info">>

tool_mapping == {available_tools[i] : i \in 1..Len(available_tools)}

\* the parameters of the two implementations
Signature(name) ==
    IF name = "search_papers"
    THEN [required |-> {"topic"}, optional |-> {"max_results"}]
    ELSE [required |-> {"paper_id"}, optional |-> {}]

RECURSIVE Join(_, _)
\* sep.join(items), for items that are strings
Join(items, sep) ==
    IF items = <<>> THEN <<>>
    ELSE IF Len(items) = 1 THEN items[1]
    ELSE items[1] \o sep \o Join(Tail(items), sep)

\* Values a tool may return are tagged with their Python type:
\*   [kind |-> "None"], [kind |-> "str", s |-> string], [kind |-> "int", n |-> number],
\*   [kind |-> "set"] (a value json cannot serialise),
\*   [kind |-> "list", items |-> sequence of values],
\*   [kind |-> "dict", pairs |-> sequence of [k |-> key, v |-> value]] with
\*   distinct keys, in the mapping's insertion order.

\* str(value), for the values that are not containers
StrOf(x) ==
    CASE x.kind = "str" -> x.s
      [] x.kind = "int" -> <<ToString(x.n)>>
      [] x.kind = "None" -> <<"None">>
      [] OTHER -> <<"{...}">>

\* json can serialise strings, numbers and None but no set
Serialisable(x) == x.kind \in {"str", "int", "None"}

\* the JSON text of a value inside a mapping
JsonValue(x) ==
    CASE x.kind = "str" -> <<"\"">> \o x.s \o <<"\"">>
      [] x.kind = "None" -> <<"null">>
      [] OTHER -> <<ToString(x.n)>>

\* json.dumps(mapping, indent=2, ensure_ascii=False): the entries are written
\* in the order the mapping holds them
JsonDumps(pairs) ==
    IF pairs = <<>> THEN <<"{}">>
    ELSE <<"{">>
         \o Join([i \in 1..Len(pairs) |->
                    <<"\"", pairs[i].k, "\": ">> \o JsonValue(pairs[i].v)], <<",">>)
         \o <<"}">>

\* json.dumps raises TypeError for a value it cannot serialise
FormatRaises(result) ==
    /\ result.kind = "dict"
    /\ \E i \in 1..Len(result.pairs) : ~Serialisable(result.pairs[i].v)

\* the message of that TypeError
NotSerialisableMsg == <<"Object of type set is not JSON serializable">>

\* a list handled by the last branch: str(list)
_format_result_NoListBranch(result) ==
    CASE result.kind = "None" ->
            <<"The operation completed but didn't return any results.">>
      [] result.kind = "list" ->
            <<"[">> \o Join([i \in 1..Len(result.items) |->
                               <<"'">> \o StrOf(result.items[i]) \o <<"'">>], <<", ">>)
                   \o <<"]">>
      [] result.kind = "dict" -> JsonDumps(result.pairs)
      [] OTHER -> StrOf(result)

\* ToolExecutor._format_result, where it does not raise
_format_result(result) ==
    CASE result.kind = "None" ->
            <<"The operation completed but didn't return any results.">>
      [] result.kind = "list" ->
            Join([i \in 1..Len(result.items) |-> StrOf(result.items[i])], <<", ">>)
      [] result.kind = "dict" -> JsonDumps(result.pairs)
      [] OTHER -> StrOf(result)

RECURSIVE SetToSeq(_)
\* the elements of a set of names, each as a string, in some order
SetToSeq(S) ==
    IF S = {} THEN <<>>
    ELSE LET x == CHOOSE y \in S : TRUE IN <<(<<x>>)>> \o SetToSeq(S \ {x})

\* str() of a set of names
SetRepr(S) == <<"{">> \o Join(SetToSeq(S), <<", ">>) \o <<"}">>

\* a check in one direction only: every declared name has an implementation
RegistryCheck_OneWay(schemas) ==
    LET missing_in_mapping == schemas \ tool_mapping IN
    IF missing_in_mapping # {}
    THEN Exc("ToolExecutorError",
             <<"Tool schema and mapping mismatch: ">>
                \o <<"Missing in mapping: ">> \o SetRepr(missing_in_mapping))
    ELSE NoError

\* ToolExecutor.__init__: the error it raises, or NoError
RegistryCheck(schemas) ==
    LET schema_tools == schemas
        mapping_tools == tool_mapping
        missing_in_mapping == schema_tools \ mapping_tools
        missing_in_schemas == mapping_tools \ schema_tools
        part1 == IF missing_in_mapping # {}
                 THEN << <<"Missing in mapping: ">> \o SetRepr(missing_in_mapping) >>
                 ELSE <<>>
        part2 == IF missing_in_schemas # {}
                 THEN << <<"Missing in schemas: ">> \o SetRepr(missing_in_schemas) >>
                 ELSE <<>>
        error_parts == part1 \o part2
    IN  IF schema_tools # mapping_tools
        THEN Exc("ToolExecutorError",
                 <<"Tool schema and mapping mismatch: ">> \o Join(error_parts, <<"; ">>))
        ELSE NoError

\* the TypeError messages of calling an implementation with **tool_args
BindErrors(name, keys) ==
    LET sig == Signature(name)
        unexpected == keys \ (sig.required \cup sig.optional)
        missing == sig.required \ keys
    IN  IF unexpected # {}
        THEN {<<name, "() got an unexpected keyword argument '", k, "'">> : k \in unexpected}
        ELSE {<<name, "() missing 1 required positional argument: '", k, "'">> :
                 k \in missing}

\* the default of search_papers' max_results parameter
DefaultMaxResults == 5

\* the call tool_function(**tool_args): what the implementation returns or
\* raises, and the store it leaves
CallTool(tool_name, tool_args, st, idx) ==
    IF tool_name = "search_papers"
    THEN LET r == search_papers(tool_args.topic,
                                IF "max_results" \in DOMAIN tool_args
                                THEN tool_args.max_results ELSE DefaultMaxResults,
                                st, idx)
         IN  {[raised |-> r.raised, exc |-> r.exc, store |-> r.store,
               queried |-> r.queried,
               result |-> [kind |-> "list",
                           items |-> [i \in 1..Len(r.value) |->
                                         [kind |-> "str", s |-> r.value[i]]]]]}
    ELSE {[raised |-> FALSE, exc |-> NoError, store |-> st, queried |-> FALSE,
           result |-> [kind |-> "str", s |-> t]] :
             t \in extract_info(tool_args.paper_id, st)}

\* no membership test
Lookup_Always(tool_name) == TRUE

\* the membership test that guards the call
Lookup(tool_name) == tool_name \in tool_mapping

\* the message of the except clause for any other exception
ExecFailedMsg(tool_name, m) == <<"Tool '", tool_name, "' execution failed: ">> \o m

\* a TypeError handled like any other exception
InvalidArgsMsg_AsFailure(tool_name, m) == ExecFailedMsg(tool_name, m)

\* the message of the except TypeError clause
InvalidArgsMsg(tool_name, m) == <<"Invalid arguments for tool '", tool_name, "': ">> \o m

\* ToolExecutor.execute_tool(tool_name, tool_args): the set of its possible
\* outcomes. invoked tells whether an implementation was entered.
execute_tool(tool_name, tool_args, st, idx) ==
    IF ~Lookup(tool_name)
    THEN {[raised |-> TRUE, value |-> <<>>, store |-> st, invoked |-> FALSE,
           queried |-> FALSE,
           exc |-> Exc("ToolNotFoundError",
                       <<"Tool '", tool_name, "' not found. Available tools: ">>
                          \o Join([i \in 1..Len(available_tools) |-> <<available_tools[i]>>],
                                  <<", ">>))]}
    ELSE IF BindErrors(tool_name, DOMAIN tool_args) # {}
    THEN {[raised |-> TRUE, value |-> <<>>, store |-> st, invoked |-> FALSE,
           queried |-> FALSE,
           exc |-> Exc("ToolExecutionError", InvalidArgsMsg(tool_name, m))] :
             m \in BindErrors(tool_name, DOMAIN tool_args)}
    ELSE {IF c.raised
          THEN [raised |-> TRUE, value |-> <<>>, store |-> c.store, invoked |-> TRUE,
                queried |-> c.queried,
                exc |-> Exc("ToolExecutionError", ExecFailedMsg(tool_name, c.exc.msg))]
          ELSE IF FormatRaises(c.result)
          THEN [raised |-> TRUE, value |-> <<>>, store |-> c.store, invoked |-> TRUE,
                queried |-> c.queried,
                exc |-> Exc("ToolExecutionError",
                            InvalidArgsMsg(tool_name, NotSerialisableMsg))]
          ELSE [raised |-> FALSE, value |-> _format_result(c.result), store |-> c.store,
                invoked |-> TRUE, queried |-> c.queried, exc |-> NoError] :
             c \in CallTool(tool_name, tool_args, st, idx)}

----------------------------------------------------------------------------
(* Inputs of the model: what the environment can supply *)

\* names that tools/schemas.py may declare
SchemaNameUniverse == tool_mapping \cup {"summarize"}

\* lines the user may type at the prompt
InputLines ==
    { <<"q">>, <<"Q", "U", "I", "T">>, <<" ", "E", "x", "i", "t">>, <<>>, <<" ">>,
      <<"h", "i">>, <<" ", "H", "i", " ">> }

\* arguments with which process_query may be called directly
DirectQueries == { <<>>, <<" ", "\t">>, <<"h", "i">> }

\* the tool calls a model response may request: name and input mapping
ToolCallTable ==
    << [name |-> "search_papers", input |-> [topic |-> <<"q", "c">>, max_results |-> 5]],
       [name |-> "extract_info",  input |-> [paper_id |-> <<"p1">>]],
       [name |-> "extract_info",  input |-> [id |-> <<"p1">>]],
       [name |-> "summarize",     input |-> [text |-> <<"p1">>]] >>

ToolCalls == 1..Len(ToolCallTable)

\* the shapes of a model response: 0 is a text segment, n > 0 a tool-use
\* segment requesting ToolCallTable[n]. The tool-use segments of one
\* response request the same call.
ResponseShapes(calls) ==
    UNION {[1..n -> {0, c}] : n \in 0..MaxSegs, c \in calls}

\* the segment at position i of the response to model call c; its text or
\* its invocation id is unique to that position
MkSegment(kind, c, i) ==
    IF kind = 0
    THEN [type |-> "text", text |-> <<"text", ToString(c), ToString(i)>>]
    ELSE [type |-> "tool_use", id |-> <<"toolu", ToString(c), ToString(i)>>,
          name |-> ToolCallTable[kind].name, input |-> ToolCallTable[kind].input]

MkResponse(shape, c) == [i \in 1..Len(shape) |-> MkSegment(shape[i], c, i)]

HasToolUse(resp) == \E i \in 1..Len(resp) : resp[i].type = "tool_use"

HasText(resp) == \E i \in 1..Len(resp) : resp[i].type = "text"

PaperA == [title |-> "T", authors |-> "A", summary |-> "S", pdf_url |-> "U",
           published |-> "2024-12-10"]

\* what the paper index can answer to a search
IndexOutcomes ==
    { [fail |-> "none", papers |-> << [id |-> <<"p1">>, rec |-> PaperA] >>],
      [fail |-> "ArxivError", papers |-> <<>>] }

\* the underlying message of a failed model call
RawApiMessage == <<"connection reset">>

\* the ways a model call can fail: anthropic.APIError or any other exception
ApiFailures == {"anthropic.APIError", "Exception"}

\* where the constructor can fail besides the registry check
ConstructFailures == {"none", "client", "audit"}

EmptyStore == [d \in {} |-> NoFile]

\* no direct call has been made
NoCall == [op |-> "none"]

\* no search has written anything
NoWrite == [dir |-> <<>>, records |-> EmptyMap]

\* no session is searching
NoSessions == [s \in {} |-> 0]

\* the audit module before anything has used it: no global logger, no
\* handler on logging.getLogger("audit"), nothing written
NoAuditLog == [today |-> 1, global |-> 0, handler |-> 0, sessions |-> 0, held |-> 0,
               returned |-> 0, written |-> <<>>, last |-> "none"]

\* no model call has been made for the current query
NoRequest == [max_tokens |-> 0, model |-> "", tools |-> {}, messages |-> <<>>]

----------------------------------------------------------------------------
(* Initial state: the process has started, nothing is constructed yet *)

Init ==
    /\ pc = "startup"
    /\ TOOL_SCHEMAS \in SUBSET SchemaNameUniverse
    /\ enable_audit \in BOOLEAN
    /\ audit_logger = "unset"
    /\ caller = "none"
    /\ query = <<>>
    /\ messages = <<>>
    /\ response = <<>>
    /\ callNo = 0
    /\ assistant_content = <<>>
    /\ has_tool_calls = FALSE
    /\ tool_result = <<>>
    /\ error = NoError
    /\ store = EmptyStore
    /\ out = <<>>
    /\ modelCalls = 0
    /\ toolRuns = <<>>
    /\ auditEvents = <<>>
    /\ errlog = <<>>
    /\ outcome = "none"
    /\ user_input = <<>>
    /\ lastCall = NoCall
    /\ lastWrite = NoWrite
    /\ sess = NoSessions
    /\ log_writable = TRUE
    /\ request = NoRequest
    /\ auditLog = NoAuditLog

\* an audit event is written only when the chatbot holds an audit logger
Audit(events) == IF audit_logger = "logger" THEN auditEvents \o events ELSE auditEvents

Ev(t, ok) == [event_type |-> t, success |-> ok]

\* the exception of an event that could not be serialised or written
WriteError == [type |-> "Exception", msg |-> <<"audit event not written">>]

\* a write without the try block: the exception leaves the logger
_write_event_NoCatch(fails) == IF fails THEN "raised" ELSE "written"

\* AuditLogger._write_event: the event is written as one line; an exception
\* on the way is caught there and the event is dropped
_write_event(fails) == IF fails THEN "dropped" ELSE "written"

\* a log_* call of a chatbot whose audit_logger is al raises
LogRaises(al, fails) == al = "logger" /\ _write_event(fails) = "raised"

\* what a step does to the audit trail, when the trail is part of the step
Rec(trail, v) == IF trail THEN auditEvents' = v ELSE TRUE

\* the audit trail after the log_* calls that build the given events
Logged(al, fails, events) ==
    IF al = "logger" /\ _write_event(fails) = "written"
    THEN auditEvents \o events ELSE auditEvents

----------------------------------------------------------------------------
(* Startup: main() constructs the chatbot *)

AttributeErrorMsg == <<"'ArxivChatbot' object has no attribute 'audit_logger'">>

\* ArxivChatbot.__init__, called from main(). fp is the place where something
\* other than the registry check fails.
Construct ==
    /\ pc = "startup"
    /\ \E fp \in ConstructFailures :
         LET reg == RegistryCheck(TOOL_SCHEMAS)
             \* the exception raised inside the try block, if any
             inner == IF fp = "client" THEN Exc("Exception", <<"client creation failed">>)
                      ELSE IF reg.type # "none" THEN reg
                      ELSE IF fp = "audit" /\ enable_audit
                           THEN Exc("OSError", <<"cannot create audit directory">>)
                           ELSE NoError
             \* self.audit_logger is assigned only after the client and the
             \* registry have been created
             assigned == fp # "client" /\ reg.type = "none"
             error_msg == <<"Failed to initialize chatbot: ">> \o inner.msg
         IN  IF inner.type = "none"
             THEN /\ audit_logger' = IF enable_audit THEN "logger" ELSE "None"
                  /\ auditEvents' = IF enable_audit
                                    THEN <<Ev("session_start", TRUE)>> ELSE <<>>
                  /\ pc' = "ready"
                  /\ UNCHANGED <<error, errlog>>
             ELSE /\ errlog' = Append(errlog, error_msg)
                  /\ audit_logger' = IF assigned THEN "None" ELSE "unset"
                  \* the handler reads self.audit_logger before it raises
                  /\ error' = IF assigned THEN Exc("ChatbotError", error_msg)
                              ELSE Exc("AttributeError", AttributeErrorMsg)
                  /\ pc' = "init_raised"
                  /\ UNCHANGED auditEvents
    /\ UNCHANGED <<toolVars, request>>
    /\ UNCHANGED <<user_input, TOOL_SCHEMAS, enable_audit, caller, query, messages, response, callNo,
                   assistant_content, has_tool_calls, tool_result, store, out,
                   modelCalls, toolRuns, outcome>>

\* main(): the handler of a failed startup; the process exits with status 1
MainStartupFailed ==
    /\ pc = "init_raised"
    /\ out' = out \o << <<"Failed to start chatbot: ">> \o error.msg,
                        <<"Please check:">>,
                        <<"1. Your ANTHROPIC_API_KEY environment variable is set">>,
                        <<"2. You have an active internet connection">>,
                        <<"3. Your Python environment has all required dependencies">>,
                        <<"4. Your configuration settings are valid">> >>
    /\ errlog' = Append(errlog, <<"Application startup failed: ">> \o error.msg)
    /\ pc' = "startup_failed"
    /\ UNCHANGED <<toolVars, request>>
    /\ UNCHANGED <<user_input, TOOL_SCHEMAS, enable_audit, audit_logger, caller, query, messages,
                   response, callNo, assistant_content, has_tool_calls, tool_result,
                   error, store, modelCalls, toolRuns, auditEvents, outcome>>

----------------------------------------------------------------------------
(* The interactive loop *)

\* the list without its shortest word
QuitWords_NoQ == { <<"q", "u", "i", "t">>, <<"e", "x", "i", "t">> }

\* the words that end the loop (line 303)
QuitWords == { <<"q", "u", "i", "t">>, <<"e", "x", "i", "t">>, <<"q">> }

\* what the model records about one call of process_query, and about what
\* was printed and logged since the last input, starts afresh
FreshWindow(q, who, printed) ==
    /\ query' = q
    /\ caller' = who
    \* the list of the last query is still there, referenced by nothing
    /\ messages' = messages
    /\ response' = <<>>
    /\ callNo' = 0
    /\ assistant_content' = <<>>
    /\ has_tool_calls' = FALSE
    /\ tool_result' = <<>>
    /\ error' = NoError
    /\ out' = printed
    /\ modelCalls' = 0
    /\ toolRuns' = <<>>
    /\ auditEvents' = <<>>
    /\ errlog' = <<>>
    /\ outcome' = "none"
    /\ request' = NoRequest

\* start_chat_loop up to the loop: the banner and the session-start event
StartChatLoop ==
    /\ pc = "ready"
    /\ out' = Append(out, <<"ArXiv Research Chatbot">>)
    /\ auditEvents' = Audit(<<Ev("security_event", TRUE)>>)
    /\ pc' = "input"
    /\ UNCHANGED <<toolVars, request>>
    /\ UNCHANGED <<user_input, TOOL_SCHEMAS, enable_audit, audit_logger, caller, query, messages,
                   response, callNo, assistant_content, has_tool_calls, tool_result,
                   error, store, modelCalls, toolRuns, errlog, outcome>>

\* one iteration of the loop up to the call of process_query
ReadInput ==
    /\ pc = "input"
    /\ \E line \in InputLines :
         LET q == Strip(line) IN
         /\ user_input' = line
         /\ IF Lower(q) \in QuitWords
            THEN /\ FreshWindow(<<>>, "none", << <<"Goodbye! Happy researching!">> >>)
                 /\ pc' = "loop_end"
            ELSE IF q = <<>>
            THEN /\ FreshWindow(<<>>, "none",
                                << <<"Please enter a question or 'quit' to exit.">> >>)
                 /\ pc' = "input"
            ELSE /\ FreshWindow(q, "chat_loop", << <<"Processing...">> >>)
                 /\ pc' = "process_query"
    /\ UNCHANGED toolVars
    /\ UNCHANGED <<TOOL_SCHEMAS, enable_audit, audit_logger, store>>

\* the end of start_chat_loop and the finally clause of main()
ChatLoopExit ==
    /\ pc = "loop_end"
    /\ auditEvents' = Audit(<<Ev("security_event", TRUE), Ev("session_end", TRUE)>>)
    /\ pc' = "exited"
    /\ UNCHANGED <<toolVars, request>>
    /\ UNCHANGED <<user_input, TOOL_SCHEMAS, enable_audit, audit_logger, caller, query, messages,
                   response, callNo, assistant_content, has_tool_calls, tool_result,
                   error, store, out, modelCalls, toolRuns, errlog, outcome>>

\* a caller other than the interactive loop calls process_query
DirectCall ==
    /\ pc = "ready"
    /\ \E q \in DirectQueries : FreshWindow(q, "direct", <<>>)
    /\ pc' = "process_query"
    /\ UNCHANGED toolVars
    /\ UNCHANGED <<user_input, TOOL_SCHEMAS, enable_audit, audit_logger, store>>

\* where control goes when process_query ends
BackToCaller == IF caller = "chat_loop" THEN "input" ELSE "ready"

----------------------------------------------------------------------------
(* process_query and the response loop (core/chatbot.py) *)

\* the list of the last query is kept and the new query is put behind it
SeedMessages_Carry(q, previous) == Append(previous, [role |-> "user", content |-> q])

\* the list process_query starts with (line 74): a new list, whatever the
\* last query has left
SeedMessages(q, previous) == << [role |-> "user", content |-> q] >>

\* process_query up to the first model call, for a chatbot whose
\* audit_logger is al and whose audit writes in this step fail or not, with
\* or without what the step does to the audit trail
ProcessQueryEntryStep(al, fails, trail) ==
    /\ pc = "process_query"
    /\ IF Strip(query) = <<>>
       THEN /\ out' = Append(out, <<"Please provide a valid query.">>)
            /\ outcome' = "returned"
            /\ pc' = BackToCaller
            /\ Rec(trail, auditEvents)
            /\ UNCHANGED <<messages, error>>
       ELSE IF LogRaises(al, fails)
       THEN \* log_user_query is called before the try block
            /\ error' = WriteError
            /\ outcome' = "raised"
            /\ pc' = IF caller = "chat_loop" THEN "loop_except" ELSE "ready"
            /\ Rec(trail, auditEvents)
            /\ UNCHANGED <<out, messages>>
       ELSE /\ Rec(trail, Logged(al, fails, <<Ev("user_query", TRUE)>>))
            /\ messages' = SeedMessages(query, messages)
            /\ pc' = "call_api"
            /\ UNCHANGED <<out, outcome, error>>
    \* process_query is given the stripped text only
    /\ user_input' = <<>>
    /\ UNCHANGED <<toolVars, request>>
    /\ UNCHANGED <<TOOL_SCHEMAS, enable_audit, audit_logger, caller, query, response,
                   callNo, assistant_content, has_tool_calls, tool_result, store,
                   modelCalls, toolRuns, errlog>>

ProcessQueryEntry ==
    ProcessQueryEntryStep(audit_logger, FALSE, TRUE)

\* the tool calls the model has requested so far in this query
RequestedCalls ==
    {c \in ToolCalls :
        \E i \in 1..Len(messages) :
            /\ messages[i].role = "assistant"
            /\ LET seg == messages[i].content[Len(messages[i].content)] IN
               /\ seg.name = ToolCallTable[c].name
               /\ DOMAIN seg.input = DOMAIN ToolCallTable[c].input}

\* within one query the model keeps requesting the tool call it requested first
AllowedCalls == IF RequestedCalls = {} THEN ToolCalls ELSE RequestedCalls

\* config.max_tokens and config.model_name
max_tokens == 2048

model_name == "claude-3-haiku-20240307"

\* the schemas are sent with the first call of a query only
tool_schemas_FirstCallOnly == IF modelCalls = 0 THEN TOOL_SCHEMAS ELSE {}

\* ToolExecutor.tool_schemas: the list that tools/schemas.py declares
tool_schemas == TOOL_SCHEMAS

\* the message list handed to the client: a message whose content is a
\* string, which is the user's query, is rebuilt from its role and content,
\* the others are passed as they are
FormatMessages(msgs) ==
    [i \in 1..Len(msgs) |->
        IF msgs[i].role = "user" /\ i = 1
        THEN [role |-> msgs[i].role, content |-> msgs[i].content]
        ELSE msgs[i]]

\* _call_api: one model call, which answers with a response or fails. The
\* first call is made by process_query, the later ones by the response loop
\* right before its break.
CallApiStep(al, fails, trail) ==
    /\ pc = "call_api"
    /\ modelCalls' = modelCalls + 1
    /\ request' = [max_tokens |-> max_tokens, model |-> model_name,
                   tools |-> tool_schemas, messages |-> FormatMessages(messages)]
    /\ \/ \E shape \in ResponseShapes(AllowedCalls) :
            LET resp == MkResponse(shape, modelCalls + 1) IN
            /\ HasToolUse(resp) => modelCalls + 1 < MaxCalls
            /\ IF LogRaises(al, fails)
               THEN \* log_api_call is inside the try block: the last except
                    \* clause catches its exception, and log_error raises
                    \* there in turn
                    /\ errlog' = Append(errlog, <<"Unexpected API error: ">>
                                                   \o WriteError.msg)
                    /\ Rec(trail, auditEvents)
                    /\ error' = WriteError
                    /\ pc' = "query_except"
                    /\ UNCHANGED <<response, callNo>>
               ELSE /\ response' = resp
                    /\ callNo' = modelCalls + 1
                    /\ Rec(trail, Logged(al, fails, <<Ev("api_call", TRUE)>>))
                    /\ pc' = IF modelCalls = 0 THEN "scan" ELSE "check"
                    /\ UNCHANGED <<error, errlog>>
       \/ \E f \in ApiFailures :
            LET error_msg == IF f = "anthropic.APIError"
                             THEN <<"Anthropic API error: ">> \o RawApiMessage
                             ELSE <<"Unexpected API error: ">> \o RawApiMessage
            IN
            /\ errlog' = Append(errlog, error_msg)
            /\ Rec(trail, Logged(al, fails, <<IF f = "anthropic.APIError"
                                       THEN Ev("api_call", FALSE)
                                       ELSE Ev("error", FALSE)>>))
            \* an exception of the log call in the handler replaces APIError
            /\ error' = IF LogRaises(al, fails) THEN WriteError
                        ELSE Exc("APIError", error_msg)
            /\ pc' = "query_except"
            /\ UNCHANGED <<response, callNo>>
    /\ UNCHANGED toolVars
    /\ UNCHANGED <<user_input, TOOL_SCHEMAS, enable_audit, audit_logger, caller, query, messages,
                   assistant_content, has_tool_calls, tool_result, store, out, toolRuns,
                   outcome>>

CallApi == CallApiStep(audit_logger, FALSE, TRUE)

RECURSIVE ScanFrom_NoBreak(_, _, _)
\* the for loop without its break: it goes on behind a tool-use segment
ScanFrom_NoBreak(resp, i, acc) ==
    IF i > Len(resp)
    THEN [content |-> acc,
          tool |-> \E k \in 1..Len(acc) : acc[k].type = "tool_use"]
    ELSE ScanFrom_NoBreak(resp, i + 1, Append(acc, resp[i]))

RECURSIVE ScanFrom(_, _, _)
\* the for loop over response.content from position i on, with the text
\* segments collected so far: it stops at the first tool-use segment
ScanFrom(resp, i, acc) ==
    IF i > Len(resp) THEN [content |-> acc, tool |-> FALSE]
    ELSE IF resp[i].type = "text" THEN ScanFrom(resp, i + 1, Append(acc, resp[i]))
    ELSE IF resp[i].type = "tool_use"
         THEN [content |-> Append(acc, resp[i]), tool |-> TRUE]
         ELSE ScanFrom(resp, i + 1, acc)

\* the text segments of a segment list, in order
RECURSIVE TextsOf(_)
TextsOf(content) ==
    IF content = <<>> THEN <<>>
    ELSE IF Head(content).type = "text" THEN <<Head(content).text>> \o TextsOf(Tail(content))
    ELSE TextsOf(Tail(content))

\* one pass of the while loop over the response: text segments are printed
\* and collected until the first tool-use segment is met
ScanResponse ==
    /\ pc = "scan"
    /\ LET r == ScanFrom(response, 1, <<>>) IN
       /\ assistant_content' = r.content
       /\ has_tool_calls' = r.tool
       /\ out' = out \o TextsOf(r.content)
       /\ pc' = IF r.tool THEN "exec_tool" ELSE "check"
    /\ UNCHANGED <<toolVars, request>>
    /\ UNCHANGED <<user_input, TOOL_SCHEMAS, enable_audit, audit_logger, caller, query, messages,
                   response, callNo, tool_result, error, store, modelCalls, toolRuns,
                   auditEvents, errlog, outcome>>

\* the tool-use segment being dispatched: the last segment collected
tool_content == assistant_content[Len(assistant_content)]

\* _execute_tool: runs the tool and gives back a string in every case
ExecuteToolStep(al, fails, trail) ==
    /\ pc = "exec_tool"
    /\ \E idx \in IndexOutcomes :
         \E o \in execute_tool(tool_content.name, tool_content.input, store, idx) :
            /\ store' = o.store
            /\ toolRuns' = Append(toolRuns, [id |-> tool_content.id,
                                             name |-> tool_content.name,
                                             keys |-> DOMAIN tool_content.input,
                                             invoked |-> o.invoked,
                                             exc |-> o.exc.type,
                                             msg |-> o.exc.msg])
            /\ IF ~o.raised
               THEN IF LogRaises(al, fails)
                    THEN \* the log calls are inside the try block, and their
                         \* exception is no ToolExecutorError
                         /\ error' = WriteError
                         /\ Rec(trail, auditEvents)
                         /\ pc' = "query_except"
                         /\ UNCHANGED <<tool_result, errlog>>
                    ELSE /\ tool_result' = o.value
                         /\ Rec(trail, Logged(al, fails, <<Ev("tool_execution", TRUE),
                                                    Ev("tool_result", TRUE)>>))
                         /\ pc' = "append"
                         /\ UNCHANGED <<errlog, error>>
               ELSE IF o.exc.type \in ToolExecutorErrors
               THEN LET error_msg == <<"Tool execution failed: ">> \o o.exc.msg IN
                    /\ errlog' = Append(errlog, error_msg)
                    /\ Rec(trail, Logged(al, fails, <<Ev("tool_execution", FALSE)>>))
                    /\ IF LogRaises(al, fails)
                       THEN /\ error' = WriteError
                            /\ pc' = "query_except"
                            /\ UNCHANGED tool_result
                       ELSE /\ tool_result' = error_msg
                            /\ pc' = "append"
                            /\ UNCHANGED error
               ELSE /\ error' = o.exc
                    /\ pc' = "query_except"
                    /\ Rec(trail, auditEvents)
                    /\ UNCHANGED <<tool_result, errlog>>
    /\ out' = Append(out, <<"Calling tool '", tool_content.name, "' with args">>)
    /\ UNCHANGED <<toolVars, request>>
    /\ UNCHANGED <<user_input, TOOL_SCHEMAS, enable_audit, audit_logger, caller, query, messages,
                   response, callNo, assistant_content, has_tool_calls, modelCalls,
                   outcome>>

ExecuteTool == ExecuteToolStep(audit_logger, FALSE, TRUE)

\* the tool result is appended before the assistant message
DispatchMessages_ResultFirst(content, id, result) ==
    << [role |-> "user",
        content |-> << [type |-> "tool_result", tool_use_id |-> id,
                        content |-> result] >>],
       [role |-> "assistant", content |-> content] >>

\* the assistant message alone
DispatchMessages_NoResult(content, id, result) ==
    << [role |-> "assistant", content |-> content] >>

\* the two messages a dispatch appends (lines 198-208)
DispatchMessages(content, id, result) ==
    << [role |-> "assistant", content |-> content],
       [role |-> "user",
        content |-> << [type |-> "tool_result", tool_use_id |-> id,
                        content |-> result] >>] >>

\* the two appends after the tool has run: the assistant message with what
\* this pass collected, then the tool result for the invocation id
AppendMessages ==
    /\ pc = "append"
    /\ messages' = messages \o
                      DispatchMessages(assistant_content, tool_content.id, tool_result)
    /\ pc' = "call_api"
    /\ UNCHANGED <<toolVars, request>>
    /\ UNCHANGED <<user_input, TOOL_SCHEMAS, enable_audit, audit_logger, caller, query, response,
                   callNo, assistant_content, has_tool_calls, tool_result, error, store,
                   out, modelCalls, toolRuns, auditEvents, errlog, outcome>>

\* the test without its text condition
Done_NoTextTest == ~has_tool_calls

\* the test without its tool-call condition
Done_NoToolTest == HasText(response)

\* the test that ends the while loop
Done == ~has_tool_calls /\ HasText(response)

\* the end of one pass: the loop ends, and process_query returns, or the
\* next pass starts on the response now held
CheckDone ==
    /\ pc = "check"
    /\ IF Done
       THEN /\ outcome' = "returned"
            /\ pc' = BackToCaller
       ELSE /\ pc' = "scan"
            /\ UNCHANGED outcome
    /\ UNCHANGED <<toolVars, request>>
    /\ UNCHANGED <<user_input, TOOL_SCHEMAS, enable_audit, audit_logger, caller, query, messages,
                   response, callNo, assistant_content, has_tool_calls, tool_result,
                   error, store, out, modelCalls, toolRuns, auditEvents, errlog>>

\* a message that leaves out the text of the exception
QueryErrorMsg_NoCause(e) == <<"Error processing query">>

\* the message process_query builds from the exception it caught
QueryErrorMsg(e) == <<"Error processing query: ">> \o e.msg

\* the except clause of process_query
QueryExceptStep(al, fails, trail) ==
    /\ pc = "query_except"
    /\ LET error_msg == QueryErrorMsg(error) IN
       /\ errlog' = Append(errlog, error_msg)
       /\ Rec(trail, Logged(al, fails, <<Ev("error", FALSE)>>))
       /\ IF LogRaises(al, fails)
          THEN \* the exception of log_error leaves the handler before the
               \* print and the raise
               /\ error' = WriteError
               /\ UNCHANGED out
          ELSE /\ out' = Append(out, <<"Sorry, I encountered an error: ">> \o error_msg)
               /\ error' = Exc("ChatbotError", error_msg)
    /\ outcome' = "raised"
    /\ pc' = IF caller = "chat_loop" THEN "loop_except" ELSE "ready"
    /\ UNCHANGED <<toolVars, request>>
    /\ UNCHANGED <<user_input, TOOL_SCHEMAS, enable_audit, audit_logger, caller, query, messages,
                   response, callNo, assistant_content, has_tool_calls, tool_result,
                   store, modelCalls, toolRuns>>

QueryExcept == QueryExceptStep(audit_logger, FALSE, TRUE)

\* a handler that leaves the loop, as the KeyboardInterrupt handler does
LoopExcept_Break ==
    /\ pc = "loop_except"
    /\ errlog' = Append(errlog, <<"Unexpected error in chat loop: ">> \o error.msg)
    /\ auditEvents' = Audit(<<Ev("error", FALSE)>>)
    /\ out' = out \o << <<"An unexpected error occurred: ">> \o error.msg,
                        <<"Please try again or type 'quit' to exit.">> >>
    /\ pc' = "loop_end"
    /\ UNCHANGED <<toolVars, request>>
    /\ UNCHANGED <<user_input, TOOL_SCHEMAS, enable_audit, audit_logger, caller, query, messages,
                   response, callNo, assistant_content, has_tool_calls, tool_result,
                   error, store, modelCalls, toolRuns, outcome>>

\* the except Exception clause of the interactive loop
LoopExcept ==
    /\ pc = "loop_except"
    /\ errlog' = Append(errlog, <<"Unexpected error in chat loop: ">> \o error.msg)
    /\ auditEvents' = Audit(<<Ev("error", FALSE)>>)
    /\ out' = out \o << <<"An unexpected error occurred: ">> \o error.msg,
                        <<"Please try again or type 'quit' to exit.">> >>
    /\ pc' = "input"
    /\ UNCHANGED <<toolVars, request>>
    /\ UNCHANGED <<user_input, TOOL_SCHEMAS, enable_audit, audit_logger, caller, query, messages,
                   response, callNo, assistant_content, has_tool_calls, tool_result,
                   error, store, modelCalls, toolRuns, outcome>>

----------------------------------------------------------------------------

Next ==
    \/ Construct
    \/ MainStartupFailed
    \/ StartChatLoop
    \/ ReadInput
    \/ ChatLoopExit
    \/ DirectCall
    \/ ProcessQueryEntry
    \/ CallApi
    \/ ScanResponse
    \/ ExecuteTool
    \/ AppendMessages
    \/ CheckDone
    \/ QueryExcept
    \/ LoopExcept

Spec == Init /\ [][Next]_vars

----------------------------------------------------------------------------
(* Direct calls of the tool runner: execute_tool is called with the two     *)
(* tools' names on a paper store that earlier runs have left on disk        *)

PaperB == [title |-> "T2", authors |-> "B", summary |-> "S2", pdf_url |-> "U2",
           published |-> "2025-01-15"]

\* the topic directories of the model
DirQC == get_topic_dir(<<"Q", " ", "c">>)

DirML == get_topic_dir(<<"m", "l">>)

OkFile(data) == [file |-> "ok", data |-> data]

\* a partition that holds p1 and p2
BothPapers == (<<"p1">> :> PaperB) @@ (<<"p2">> :> PaperA)

\* paper stores found on disk when the first call is made
InitialStores ==
    { EmptyStore,
      DirQC :> OkFile(BothPapers),
      DirML :> OkFile(<<"p1">> :> PaperB),
      (DirQC :> [file |-> "bad_json", data |-> EmptyMap])
         @@ (DirML :> OkFile(<<"p2">> :> PaperA)),
      (DirQC :> [file |-> "undecodable", data |-> EmptyMap])
         @@ (DirML :> OkFile(<<"p1">> :> PaperA)),
      (DirQC :> NoFile) @@ (DirML :> OkFile(<<"p1">> :> PaperA)) }

\* topics given to search_papers
BlankTopics == { <<>>, <<" ">>, <<"\t", " ">> }

StoredTopics == { <<"Q", " ", "c">>, <<"m", "l">> }

\* topics that name no child of the root
DotTopics == { <<".">>, <<".", ".">> }

\* values given as max_results around the range the tool accepts
MaxResultsValues == (0 - 1)..22

\* argument mappings that go through every value of max_results
SweepArgs ==
    {[topic |-> <<"Q", " ", "c">>, max_results |-> m] : m \in MaxResultsValues}
       \cup {[topic |-> t, max_results |-> m] : t \in BlankTopics, m \in {0, 5, 21}}

\* argument mappings with and without max_results
PlainArgs ==
    {[topic |-> t, max_results |-> 2] : t \in StoredTopics}
       \cup {[topic |-> t] : t \in StoredTopics \cup {<<>>}}

\* max_results as the implementation receives it
EffectiveMaxResults(args) ==
    IF "max_results" \in DOMAIN args THEN args.max_results ELSE DefaultMaxResults

Paper(id, rec) == [id |-> <<id>>, rec |-> rec]

\* the index answers with one paper
OnePaper == [fail |-> "none", papers |-> <<Paper("p1", PaperA)>>]

\* what the paper index can answer: the papers in order of relevance, where
\* one id may come twice, or a failure
IndexAnswers ==
    { [fail |-> "none", papers |-> <<>>],
      OnePaper,
      [fail |-> "none", papers |-> <<Paper("p2", PaperB)>>],
      [fail |-> "none", papers |-> <<Paper("p2", PaperA), Paper("p1", PaperA)>>],
      [fail |-> "none", papers |-> <<Paper("p1", PaperA), Paper("p1", PaperB)>>],
      [fail |-> "ArxivError", papers |-> <<>>],
      [fail |-> "ArxivError", papers |-> <<Paper("p3", PaperB)>>] }

\* the search calls of the model: the arguments and the answer of the index
SearchInputs ==
    {[args |-> a, idx |-> OnePaper] : a \in SweepArgs}
       \cup {[args |-> a, idx |-> i] : a \in PlainArgs, i \in IndexAnswers}
       \cup {[args |-> [topic |-> t], idx |-> OnePaper] : t \in DotTopics}

\* the index gives no more papers than it was asked for
AtMost(idx, n) ==
    [idx EXCEPT !.papers = IF n <= 0 THEN <<>>
                           ELSE IF Len(@) <= n THEN @ ELSE SubSeq(@, 1, n)]

\* no answer of the index is involved
NoAnswer == [fail |-> "unused", papers |-> <<>>]

\* ids given to extract_info
PaperIdInputs == { <<>>, <<" ", "\t">>, <<"p1">>, <<"p2">>, <<"p3">> }

ToolInit ==
    /\ pc = "tools"
    /\ TOOL_SCHEMAS = tool_mapping
    /\ enable_audit = FALSE
    /\ audit_logger = "unset"
    /\ caller = "none"
    /\ query = <<>>
    /\ messages = <<>>
    /\ response = <<>>
    /\ callNo = 0
    /\ assistant_content = <<>>
    /\ has_tool_calls = FALSE
    /\ tool_result = <<>>
    /\ error = NoError
    /\ store \in InitialStores
    /\ out = <<>>
    /\ modelCalls = 0
    /\ toolRuns = <<>>
    /\ auditEvents = <<>>
    /\ errlog = <<>>
    /\ outcome = "none"
    /\ user_input = <<>>
    /\ lastCall = NoCall
    /\ lastWrite = NoWrite
    /\ sess = NoSessions
    /\ log_writable = TRUE
    /\ request = NoRequest
    /\ auditLog = NoAuditLog

\* execute_tool("search_papers", args): the index answers with at most
\* max_results papers
ExecuteSearch ==
    /\ pc = "tools"
    /\ \E in \in SearchInputs :
         LET args == in.args
             idx == AtMost(in.idx, EffectiveMaxResults(args))
         IN
         /\ \E o \in execute_tool("search_papers", args, store, idx) :
              /\ store' = o.store
              /\ lastCall' = [op |-> "search_papers", args |-> args, before |-> store,
                              raised |-> o.raised, value |-> o.value, exc |-> o.exc,
                              answer |-> IF o.queried THEN idx ELSE NoAnswer]
              /\ lastWrite' = IF o.raised THEN NoWrite
                               ELSE [dir |-> get_topic_dir(args.topic),
                                     records |-> Retrieved(idx.papers)]
    /\ UNCHANGED <<chatVars, sess, log_writable, auditLog>>

\* execute_tool("extract_info", {paper_id})
ExecuteExtract ==
    /\ pc = "tools"
    /\ \E id \in PaperIdInputs :
         \E o \in execute_tool("extract_info", [paper_id |-> id], store, NoAnswer) :
              /\ store' = o.store
              /\ lastCall' = [op |-> "extract_info", args |-> [paper_id |-> id],
                              before |-> store, raised |-> o.raised, value |-> o.value,
                              exc |-> o.exc, answer |-> NoAnswer]
    /\ UNCHANGED <<chatVars, lastWrite, sess, log_writable, auditLog>>

ToolNext == ExecuteSearch \/ ExecuteExtract

ToolSpec == ToolInit /\ [][ToolNext]_vars

----------------------------------------------------------------------------
(* Direct calls of two helpers: ToolExecutor._format_result and             *)
(* AuditAnalyzer.load_audit_events (utils/audit_analyzer.py)                *)

\* longest list given to _format_result
MaxItems == 2
\* the audit log files are those of day 1 to day LastDay
LastDay == 3

Str(a) == [kind |-> "str", s |-> <<a>>]

Int7 == [kind |-> "int", n |-> 7]

\* the elements of the lists and the values of the mappings
ItemValues == {Str("a"), Str("b"), Int7}

ListInputs ==
    {[kind |-> "list", items |-> q] : q \in UNION {[1..n -> ItemValues] : n \in 0..MaxItems}}

\* the mappings with keys k1 and k2, in both insertion orders
DictInputs ==
    {[kind |-> "dict", pairs |-> <<>>]}
      \cup {[kind |-> "dict", pairs |-> <<[k |-> key, v |-> val]>>] :
               key \in {"k1", "k2"}, val \in ItemValues \cup {[kind |-> "set"]}}
      \cup {[kind |-> "dict",
              pairs |-> <<[k |-> o[1], v |-> v1], [k |-> o[2], v |-> v2]>>] :
               o \in {<<"k1", "k2">>, <<"k2", "k1">>},
               v1 \in ItemValues, v2 \in ItemValues \cup {[kind |-> "set"]}}

\* the values given to _format_result
FormatInputs ==
    {[kind |-> "None"], Str("s"), Int7} \cup ListInputs \cup DictInputs

\* no earlier call of _format_result
NoFormat == [arg |-> [kind |-> "None"], raised |-> FALSE, value |-> <<>>, made |-> FALSE]

\* a date or datetime of the given day
Day(type, n) == [type |-> type, day |-> n]

\* the optional start_date and end_date
NoDate == [given |-> FALSE, at |-> Day("datetime", 0)]

DateArgs == {NoDate} \cup {[given |-> TRUE, at |-> Day("datetime", n)] : n \in 1..LastDay}

\* datetime.date()
DateOf(dt) == Day("date", dt.day)

\* Python orders two dates and two datetimes, and raises TypeError when
\* asked to order a datetime and a date
OrderRaises(a, b) == a.type # b.type

\* a line that is an event of a session, and a line that is not JSON
EventLine(session, n) == [json |-> TRUE, session_id |-> session, event_id |-> n]

BadLine == [json |-> FALSE, session_id |-> "", event_id |-> 0]

\* the lines of the log file of a day
LinesOfDay(n) ==
    IF n = 1 THEN <<EventLine("s1", 10)>>
    ELSE IF n = 2 THEN <<EventLine("s1", 20), BadLine, EventLine("s2", 21)>>
    ELSE <<EventLine("s2", 10 * n)>>

\* audit_YYYYMMDD.log of day n
LogFile(n) == [dated |-> TRUE, day |-> n, lines |-> LinesOfDay(n)]

\* a file that matches audit_*.log and whose name holds no date
UndatedFile == [dated |-> FALSE, day |-> 0, lines |-> <<EventLine("s3", 99)>>]

LogFiles == {LogFile(n) : n \in 1..LastDay} \cup {UndatedFile}

\* what glob("audit_*.log") can list: some of the files, in any order
Listings ==
    {q \in UNION {[1..n -> LogFiles] : n \in 0..2} :
        \A i, j \in 1..Len(q) : i # j => q[i] # q[j]}

\* the events of the lines that json.loads accepts
RECURSIVE EventsOf(_)
EventsOf(lines) ==
    IF lines = <<>> THEN <<>>
    ELSE IF Head(lines).json THEN <<Head(lines)>> \o EventsOf(Tail(lines))
    ELSE EventsOf(Tail(lines))

\* whether one of the two date tests on a file raises
DateTestRaises(file_date, start_date, end_date) ==
    \/ start_date.given /\ OrderRaises(file_date, DateOf(start_date.at))
    \/ end_date.given /\ OrderRaises(file_date, DateOf(end_date.at))

\* AuditAnalyzer.load_audit_events over the listed files from position i on
RECURSIVE load_audit_events(_, _, _, _, _)
load_audit_events(log_files, i, start_date, end_date, events) ==
    IF i > Len(log_files) THEN [raised |-> FALSE, events |-> events]
    ELSE LET log_file == log_files[i]
             file_date == Day("datetime", log_file.day)
         IN  IF ~log_file.dated
             THEN load_audit_events(log_files, i + 1, start_date, end_date, events)
             ELSE IF DateTestRaises(file_date, start_date, end_date)
             THEN [raised |-> TRUE, events |-> <<>>]
             ELSE IF \/ start_date.given /\ file_date.day < start_date.at.day
                     \/ end_date.given /\ file_date.day > end_date.at.day
             THEN load_audit_events(log_files, i + 1, start_date, end_date, events)
             ELSE load_audit_events(log_files, i + 1, start_date, end_date,
                                    events \o EventsOf(log_file.lines))

HelperInit ==
    /\ pc = "helpers"
    /\ TOOL_SCHEMAS = tool_mapping
    /\ enable_audit = TRUE
    /\ audit_logger = "unset"
    /\ caller = "none"
    /\ query = <<>>
    /\ messages = <<>>
    /\ response = <<>>
    /\ callNo = 0
    /\ assistant_content = <<>>
    /\ has_tool_calls = FALSE
    /\ tool_result = <<>>
    /\ error = NoError
    /\ store = EmptyStore
    /\ out = <<>>
    /\ modelCalls = 0
    /\ toolRuns = <<>>
    /\ auditEvents = <<>>
    /\ errlog = <<>>
    /\ outcome = "none"
    /\ user_input = <<>>
    /\ lastCall = NoCall
    /\ lastWrite = NoWrite
    /\ sess = NoSessions
    /\ log_writable = TRUE
    /\ request = NoRequest
    /\ auditLog = NoAuditLog

\* a call of _format_result; the model keeps the call before it as well
FormatResult ==
    /\ pc = "helpers"
    /\ \E v \in FormatInputs :
         lastCall' = [op |-> "format", arg |-> v, raised |-> FormatRaises(v),
                      value |-> IF FormatRaises(v) THEN <<>> ELSE _format_result(v),
                      prev |-> IF lastCall.op = "format"
                               THEN [arg |-> lastCall.arg, raised |-> lastCall.raised,
                                     value |-> lastCall.value, made |-> TRUE]
                               ELSE NoFormat]
    /\ UNCHANGED <<chatVars, store, lastWrite, sess, log_writable, auditLog>>

\* a call of load_audit_events on a log directory
LoadAuditEvents ==
    /\ pc = "helpers"
    /\ \E files \in Listings, start_date \in DateArgs, end_date \in DateArgs :
         LET r == load_audit_events(files, 1, start_date, end_date, <<>>) IN
         lastCall' = [op |-> "load_audit_events", files |-> files,
                      start_date |-> start_date, end_date |-> end_date,
                      raised |-> r.raised, events |-> r.events]
    /\ UNCHANGED <<chatVars, store, lastWrite, sess, log_writable, auditLog>>

HelperNext == FormatResult \/ LoadAuditEvents

HelperSpec == HelperInit /\ [][HelperNext]_vars

----------------------------------------------------------------------------
(* Two sessions on one paper store. Each runs search_papers with arguments  *)
(* that pass the validation; between the load of the partition (line 67)    *)
(* and its save (line 86) the session iterates over the answer of the       *)
(* index, and the other session may run. Nothing locks the file.            *)

Sessions == {1, 2}

Idle == [at |-> "idle", dir |-> <<>>, papers_info |-> EmptyMap, papers |-> <<>>,
         result |-> <<>>, loadedAfter |-> 0, savedAfter |-> 0]

\* the number of saves made so far
SavesMade == Cardinality({t \in Sessions : sess[t].at = "done"})

\* the answers of the index in this part of the model
RaceAnswers ==
    { OnePaper,
      [fail |-> "none", papers |-> <<Paper("p2", PaperB)>>],
      [fail |-> "ArxivError", papers |-> <<>>] }

\* the mapping is saved as it is on disk now, with the retrieved records
SavedMapping_Reload(loaded, current, papers) == Merge(current, Retrieved(papers))

\* what search_papers saves: the mapping it loaded, with the retrieved
\* records assigned; what the file holds by now plays no part
SavedMapping(loaded, current, papers) == Merge(loaded, Retrieved(papers))

RaceInit ==
    /\ pc = "sessions"
    /\ TOOL_SCHEMAS = tool_mapping
    /\ enable_audit = FALSE
    /\ audit_logger = "unset"
    /\ caller = "none"
    /\ query = <<>>
    /\ messages = <<>>
    /\ response = <<>>
    /\ callNo = 0
    /\ assistant_content = <<>>
    /\ has_tool_calls = FALSE
    /\ tool_result = <<>>
    /\ error = NoError
    /\ store \in {EmptyStore, DirQC :> OkFile(<<"p3">> :> PaperA),
                   DirQC :> OkFile(BothPapers)}
    /\ out = <<>>
    /\ modelCalls = 0
    /\ toolRuns = <<>>
    /\ auditEvents = <<>>
    /\ errlog = <<>>
    /\ outcome = "none"
    /\ user_input = <<>>
    /\ lastCall = NoCall
    /\ lastWrite = NoWrite
    /\ sess = [s \in Sessions |-> Idle]
    /\ log_writable = TRUE
    /\ request = NoRequest
    /\ auditLog = NoAuditLog

\* search_papers up to the load of the partition: the directory is made and
\* papers_info is read
SessionLoad(s) ==
    /\ pc = "sessions"
    /\ sess[s].at = "idle"
    /\ \E topic \in StoredTopics, idx \in RaceAnswers :
         LET topic_dir == get_topic_dir(topic)
             made == Mkdir(store, topic_dir)
         IN  /\ store' = made
             /\ sess' = [sess EXCEPT ![s] =
                            [at |-> IF idx.fail = "none" THEN "loaded" ELSE "failed",
                             dir |-> topic_dir,
                             papers_info |-> _load_papers_info(made[topic_dir]),
                             papers |-> idx.papers,
                             result |-> <<>>,
                             loadedAfter |-> SavesMade,
                             savedAfter |-> 0]]
    /\ UNCHANGED <<chatVars, lastCall, lastWrite, log_writable, auditLog>>

\* the rest of search_papers: the records are assigned, the mapping is
\* saved and the ids are returned
SessionSave(s) ==
    /\ pc = "sessions"
    /\ sess[s].at = "loaded"
    /\ store' = _save_papers_info(store, sess[s].dir,
                                  SavedMapping(sess[s].papers_info,
                                               _load_papers_info(store[sess[s].dir]),
                                               sess[s].papers))
    /\ sess' = [sess EXCEPT ![s].at = "done",
                            ![s].result = PaperIdsOf(sess[s].papers),
                            ![s].savedAfter = SavesMade]
    /\ UNCHANGED <<chatVars, lastCall, lastWrite, log_writable, auditLog>>

RaceNext == \E s \in Sessions : SessionLoad(s) \/ SessionSave(s)

RaceSpec == RaceInit /\ [][RaceNext]_vars

----------------------------------------------------------------------------
(* process_query with an audit log that may fail: the chatbot has been      *)
(* constructed with or without an audit logger, and the events of an audit  *)
(* logger are written or cannot be written                                  *)

AuditInit ==
    /\ pc = "ready"
    /\ TOOL_SCHEMAS = tool_mapping
    /\ enable_audit \in BOOLEAN
    /\ audit_logger = IF enable_audit THEN "logger" ELSE "None"
    /\ caller = "none"
    /\ query = <<>>
    /\ messages = <<>>
    /\ response = <<>>
    /\ callNo = 0
    /\ assistant_content = <<>>
    /\ has_tool_calls = FALSE
    /\ tool_result = <<>>
    /\ error = NoError
    /\ store = EmptyStore
    /\ out = <<>>
    /\ modelCalls = 0
    /\ toolRuns = <<>>
    /\ auditEvents = IF enable_audit THEN <<Ev("session_start", TRUE)>> ELSE <<>>
    /\ errlog = <<>>
    /\ outcome = "none"
    /\ user_input = <<>>
    /\ lastCall = NoCall
    /\ lastWrite = NoWrite
    /\ sess = NoSessions
    /\ log_writable \in (IF enable_audit THEN BOOLEAN ELSE {TRUE})
    /\ request = NoRequest
    /\ auditLog = NoAuditLog

\* the steps of process_query that write audit events
AuditedEntry ==
    ProcessQueryEntryStep(audit_logger, ~log_writable, TRUE)

AuditedCallApi ==
    CallApiStep(audit_logger, ~log_writable, TRUE)

AuditedExecuteTool ==
    ExecuteToolStep(audit_logger, ~log_writable, TRUE)

AuditedQueryExcept ==
    QueryExceptStep(audit_logger, ~log_writable, TRUE)

\* process_query is called once
OneCall == outcome = "none" /\ DirectCall

AuditNext ==
    \/ OneCall
    \/ AuditedEntry
    \/ AuditedCallApi
    \/ ScanResponse
    \/ AuditedExecuteTool
    \/ AppendMessages
    \/ CheckDone
    \/ AuditedQueryExcept

AuditSpec == AuditInit /\ [][AuditNext]_vars

----------------------------------------------------------------------------
(* The audit module (utils/audit_logger.py): the global logger, its         *)
(* sessions, and the file that the handler of logging.getLogger("audit")    *)
(* writes to. Sessions are numbered from 1, 0 stands for None; days are     *)
(* numbered from 1.                                                         *)

\* most sessions created, and most lines written
MaxSessions == 2

MaxLines == 5

\* one line of an audit file: the event, the file it was appended to (the
\* day in the file's name) and the day it was written on
Line(session, type, file, day) ==
    [session |-> session, event_type |-> type, file |-> file, day |-> day]

\* _setup_audit_logger: the day in the name of the file that the handler of
\* the logger "audit" writes to. A handler that is there already is kept.
_setup_audit_logger(handler, today) == IF handler # 0 THEN handler ELSE today

\* the global is left as it is
GlobalAfterCleanup_Kept(g) == g

\* cleanup_audit_logger, line 372: _audit_logger = None
GlobalAfterCleanup(g) == 0

LogInit ==
    /\ pc = "audit"
    /\ TOOL_SCHEMAS = tool_mapping
    /\ enable_audit = TRUE
    /\ audit_logger = "unset"
    /\ caller = "none"
    /\ query = <<>>
    /\ messages = <<>>
    /\ response = <<>>
    /\ callNo = 0
    /\ assistant_content = <<>>
    /\ has_tool_calls = FALSE
    /\ tool_result = <<>>
    /\ error = NoError
    /\ store = EmptyStore
    /\ out = <<>>
    /\ modelCalls = 0
    /\ toolRuns = <<>>
    /\ auditEvents = <<>>
    /\ errlog = <<>>
    /\ outcome = "none"
    /\ user_input = <<>>
    /\ lastCall = NoCall
    /\ lastWrite = NoWrite
    /\ sess = NoSessions
    /\ log_writable = TRUE
    /\ request = NoRequest
    /\ auditLog = NoAuditLog

LogFrame == UNCHANGED <<chatVars, store, lastCall, lastWrite, sess, log_writable>>

\* get_audit_logger(): a new AuditLogger when the global is None, which
\* sets the handler up and writes session_start; the global otherwise. The
\* caller keeps what it is given.
GetAuditLogger ==
    /\ pc = "audit"
    /\ IF auditLog.global = 0
       THEN /\ auditLog.sessions < MaxSessions
            /\ Len(auditLog.written) < MaxLines
            /\ LET new == auditLog.sessions + 1
                   file == _setup_audit_logger(auditLog.handler, auditLog.today)
               IN  auditLog' = [auditLog EXCEPT
                                   !.global = new, !.sessions = new, !.handler = file,
                                   !.held = new, !.returned = new, !.last = "get",
                                   !.written = Append(@, Line(new, "session_start",
                                                              file, auditLog.today))]
       ELSE auditLog' = [auditLog EXCEPT !.held = auditLog.global,
                                         !.returned = auditLog.global,
                                         !.last = "get"]
    /\ LogFrame

\* a log_* call on the AuditLogger that a chatbot holds
LogEvent ==
    /\ pc = "audit"
    /\ auditLog.held # 0
    /\ Len(auditLog.written) < MaxLines
    /\ auditLog' = [auditLog EXCEPT
                       !.last = "log",
                       !.written = Append(@, Line(auditLog.held, "user_query",
                                                  auditLog.handler, auditLog.today))]
    /\ LogFrame

\* cleanup_audit_logger(): end_session and None for the global, or nothing
CleanupAuditLogger ==
    /\ pc = "audit"
    /\ IF auditLog.global # 0
       THEN /\ Len(auditLog.written) < MaxLines
            /\ auditLog' = [auditLog EXCEPT
                               !.global = GlobalAfterCleanup(auditLog.global),
                               !.last = "cleanup",
                               !.written = Append(@, Line(auditLog.global, "session_end",
                                                          auditLog.handler,
                                                          auditLog.today))]
       ELSE auditLog' = [auditLog EXCEPT !.last = "cleanup"]
    /\ LogFrame

\* the process runs past midnight
Midnight ==
    /\ pc = "audit"
    /\ auditLog.today < LastDay
    /\ auditLog' = [auditLog EXCEPT !.today = @ + 1, !.last = "midnight"]
    /\ LogFrame

LogNext == GetAuditLogger \/ LogEvent \/ CleanupAuditLogger \/ Midnight

LogSpec == LogInit /\ [][LogNext]_vars

----------------------------------------------------------------------------
(* Vocabulary of the properties *)

TextLabel(c, i) == <<"text", ToString(c), ToString(i)>>

ToolId(c, i) == <<"toolu", ToString(c), ToString(i)>>

\* how often the text segment at position i of response c was printed
ShownCount(c, i) == Cardinality({k \in 1..Len(out) : out[k] = TextLabel(c, i)})

\* how often the tool-use segment at position i of response c was executed
RunCount(c, i) == Cardinality({j \in 1..Len(toolRuns) : toolRuns[j].id = ToolId(c, i)})

\* the segment at position i of response c is part of the message sequence,
\* as a segment of an assistant message or as the subject of a tool result
InMessages(c, i) ==
    \E m \in 2..Len(messages) :
        \/ /\ messages[m].role = "assistant"
           /\ \E k \in 1..Len(messages[m].content) :
                LET seg == messages[m].content[k] IN
                \/ seg.type = "text" /\ seg.text = TextLabel(c, i)
                \/ seg.type = "tool_use" /\ seg.id = ToolId(c, i)
        \/ /\ messages[m].role = "user"
           /\ messages[m].content[1].tool_use_id = ToolId(c, i)

\* position of the first tool-use segment of a response, 0 when it has none
FirstToolPos(resp) ==
    IF HasToolUse(resp)
    THEN CHOOSE i \in 1..Len(resp) :
            /\ resp[i].type = "tool_use"
            /\ \A j \in 1..(i - 1) : resp[j].type # "tool_use"
    ELSE 0

\* the pass over the response now held has scanned it
Scanned ==
    /\ callNo >= 1
    /\ \/ pc \in {"exec_tool", "append", "call_api", "query_except"}
       \/ pc = "check" /\ ~has_tool_calls
       \/ outcome \in {"returned", "raised"}

\* a string of blanks only, the empty string included
IsBlank(str) == \A i \in 1..Len(str) : str[i] \in Blank

\* a non-blank query is being processed or has been processed
InQuery == caller \in {"chat_loop", "direct"} /\ ~IsBlank(query)

\* C1: of every model response exactly the segments up to its first tool-use
\* segment are processed: the text segments before it are printed once, that
\* one tool is executed once, and nothing behind it is ever printed, executed
\* or put into the message sequence, neither in the pass over that response
\* nor, for the earlier responses of the query, at any later time.
C1_EarlyExit ==
    InQuery =>
      /\ callNo >= 1 =>
           LET f == FirstToolPos(response) IN
           \A i \in 1..Len(response) :
              /\ (f > 0 /\ i > f) =>
                    ShownCount(callNo, i) = 0 /\ RunCount(callNo, i) = 0
                       /\ ~InMessages(callNo, i)
              /\ (response[i].type = "text" /\ (f = 0 \/ i < f)) =>
                    ShownCount(callNo, i) = (IF Scanned THEN 1 ELSE 0)
              /\ i = f =>
                    /\ RunCount(callNo, i) =
                          (IF Scanned /\ pc # "exec_tool" THEN 1 ELSE 0)
                    /\ InMessages(callNo, i) <=>
                          (Scanned /\ pc \notin {"exec_tool", "append"})
      /\ \A c \in 1..(callNo - 1) :
           \E m \in 1..MaxSegs :
              \A i \in 1..MaxSegs :
                 /\ ShownCount(c, i) = (IF i < m THEN 1 ELSE 0)
                 /\ RunCount(c, i) = (IF i = m THEN 1 ELSE 0)
                 /\ InMessages(c, i) <=> i <= m
      /\ Len(toolRuns) <= callNo

\* C1 witness: the response [Text, ToolUse, Text] has been dispatched: its
\* first text was printed, its tool was executed, and the query has ended
C1_Witness ==
    /\ InQuery
    /\ outcome = "returned"
    /\ callNo = 2
    /\ ShownCount(1, 1) = 1
    /\ RunCount(1, 2) = 1
    /\ ShownCount(1, 3) = 0
    /\ Len(messages) = 3
    /\ Len(messages[2].content) = 2

\* C2: a query answered by k responses that contain a tool-use segment and
\* then by one response with text and no tool-use has, when it returns, gone
\* through tool dispatch exactly k times, once for each of the first k
\* responses, and has made exactly k + 1 model calls.
C2_DispatchCount ==
    InQuery =>
      /\ Len(toolRuns) <= modelCalls
      /\ modelCalls <= Len(toolRuns) + 1
      /\ outcome = "returned" =>
           LET k == Len(toolRuns) IN
           /\ modelCalls = k + 1
           /\ callNo = k + 1
           /\ \A j \in 1..k : \E i \in 1..MaxSegs : toolRuns[j].id = ToolId(j, i)
           /\ ~HasToolUse(response)
           /\ HasText(response)
           /\ Len(messages) = 1 + 2 * k

\* C2 witness: the sequence [ToolUse] -> [ToolUse] -> [Text] has returned
C2_Witness ==
    /\ InQuery
    /\ outcome = "returned"
    /\ Len(toolRuns) = 2
    /\ modelCalls = 3
    /\ toolRuns[1].id = ToolId(1, 1)
    /\ toolRuns[2].id = ToolId(2, 1)
    /\ Len(response) = 1

\* every text segment of the response now held has been printed
ResponseShown ==
    \A i \in 1..Len(response) : response[i].type = "text" => ShownCount(callNo, i) = 1

\* C3: at the end of a pass the loop ends and process_query returns exactly
\* when the pass went over a response that has no tool-use segment and at
\* least one text segment; after a pass that dispatched a tool, where the
\* response now held is the new one and nothing of it was processed, it goes on.
C3_DoneExactly ==
    [][ (pc = "check" /\ InQuery) =>
          ( (outcome' = "returned") <=>
            (~HasToolUse(response) /\ HasText(response) /\ ResponseShown) ) ]_vars

\* C3 witness: a pass has just dispatched a tool and the next response, with
\* text only, is held but not yet gone over
C3_Witness ==
    /\ InQuery
    /\ pc = "check"
    /\ has_tool_calls
    /\ Len(toolRuns) = 1
    /\ HasText(response)
    /\ ~HasToolUse(response)
    /\ outcome = "none"

\* C4: a failing tool never ends the query. Whether the tool is unknown, the
\* arguments do not fit or the implementation raises, _execute_tool returns
\* the diagnostic string, which becomes the tool result for the invocation
\* id of the segment, and the model is called again; only a failing model
\* call takes the query to process_query's handler.
C4_ToolFailuresFedBack ==
    InQuery =>
      /\ pc = "query_except" => error.type = "APIError"
      /\ \A j \in 1..Len(toolRuns) :
           toolRuns[j].exc # "none" =>
             LET diagnostic == <<"Tool execution failed: ">> \o toolRuns[j].msg
                 justRun == j = Len(toolRuns) /\ pc = "append"
             IN  /\ justRun => tool_result = diagnostic /\ error = NoError
                 /\ ~justRun =>
                      /\ Len(messages) >= 2 * j + 1
                      /\ messages[2 * j + 1].role = "user"
                      /\ messages[2 * j + 1].content[1].type = "tool_result"
                      /\ messages[2 * j + 1].content[1].tool_use_id = toolRuns[j].id
                      /\ messages[2 * j + 1].content[1].content = diagnostic
                      /\ (j < Len(toolRuns) \/ pc # "call_api") => modelCalls >= j + 1

\* C4 witness: the implementation raised, the model was called again and
\* the query returned
C4_Witness ==
    /\ InQuery
    /\ outcome = "returned"
    /\ Len(toolRuns) = 1
    /\ toolRuns[1].exc = "ToolExecutionError"
    /\ toolRuns[1].invoked
    /\ modelCalls = 2

\* C5: a failing model call ends the query at once. The failed call is the
\* last model call of the query and no tool runs after it, process_query
\* ends by raising ChatbotError, and the interactive loop, having reported
\* the error, waits for the next input.
C5_ModelFailureAbortsQuery ==
    /\ [] ( InQuery =>
              /\ (pc \in {"query_except", "loop_except"} \/ outcome = "raised") =>
                    modelCalls = callNo + 1 /\ Len(toolRuns) = callNo
              /\ outcome = "raised" =>
                    error.type = "ChatbotError" /\ pc \in {"loop_except", "input", "ready"} )
    /\ [][ /\ pc = "query_except" =>
                /\ outcome' = "raised"
                /\ pc' = IF caller = "chat_loop" THEN "loop_except" ELSE "ready"
           /\ pc = "loop_except" => pc' = "input"
           /\ pc \in {"query_except", "loop_except"} =>
                modelCalls' = modelCalls /\ toolRuns' = toolRuns ]_vars

\* C5 witness: the model call after a tool dispatch failed, and the
\* interactive loop is back at its prompt
C5_Witness ==
    /\ InQuery
    /\ caller = "chat_loop"
    /\ outcome = "raised"
    /\ pc = "input"
    /\ modelCalls = 2
    /\ Len(toolRuns) = 1

\* C6: process_query called with a query that is blank returns without a
\* model call, without a tool execution and without raising; it prints the
\* request for a valid query and nothing else.
C6_BlankQuery ==
    (caller = "direct" /\ IsBlank(query)) =>
      /\ modelCalls = 0
      /\ toolRuns = <<>>
      /\ request = NoRequest
      /\ error = NoError
      /\ pc \in {"process_query", "ready", "input"}
      /\ outcome \in {"none", "returned"}
      /\ outcome = "none" => pc = "process_query" /\ out = <<>>
      /\ (outcome = "returned" /\ pc = "ready") =>
            out = << <<"Please provide a valid query.">> >>

\* C6 witness: process_query has returned from a query of blanks
C6_Witness ==
    /\ caller = "direct"
    /\ query = <<" ", "\t">>
    /\ outcome = "returned"
    /\ pc = "ready"

\* number of printed lines that begin with the given error indicator
ErrorLines(indicator) ==
    Cardinality({k \in 1..Len(out) : out[k] # <<>> /\ out[k][1] = indicator})

SorryLine == "Sorry, I encountered an error: "

UnexpectedLine == "An unexpected error occurred: "

FailedTools == Cardinality({j \in 1..Len(toolRuns) : toolRuns[j].exc # "none"})

\* C7 as stated: every error caught while a query is served, a failed tool
\* or a failed model call, shows as exactly one printed line with an error
\* indicator.
C7_OneLinePerError ==
    (InQuery /\ pc \in {"input", "ready"} /\ outcome # "none") =>
        ErrorLines(SorryLine) + ErrorLines(UnexpectedLine)
           = FailedTools + (IF outcome = "raised" THEN 1 ELSE 0)

\* C7 amended: counting the lines the engine prints (log records apart), a
\* failed model call shows as one line printed by process_query and, when
\* the query came from the interactive loop, as one more line printed by the
\* loop; both lines hold the underlying message. A failed tool shows as no
\* printed line: its diagnostic, which holds the underlying message, is the
\* tool result in the message sequence.
C7_ErrorLines ==
    InQuery =>
      /\ ErrorLines(SorryLine) = (IF outcome = "raised" THEN 1 ELSE 0)
      /\ ErrorLines(UnexpectedLine) =
            (IF outcome = "raised" /\ caller = "chat_loop" /\ pc # "loop_except"
             THEN 1 ELSE 0)
      /\ \A k \in 1..Len(out) :
            (out[k] # <<>> /\ out[k][1] \in {SorryLine, UnexpectedLine}) =>
               HasSubstring(out[k], RawApiMessage)
      /\ \A k \in 1..Len(out) : out[k] # <<>> => out[k][1] # "Tool execution failed: "
      /\ \A j \in 1..Len(toolRuns) :
            (toolRuns[j].exc # "none" /\ Len(messages) >= 2 * j + 1) =>
               /\ HasSubstring(messages[2 * j + 1].content[1].content, toolRuns[j].msg)
               /\ toolRuns[j].invoked =>
                     HasSubstring(messages[2 * j + 1].content[1].content,
                                  IndexFailureMessage)

\* C7 witness: after a failed tool the model call failed, and the
\* interactive loop has reported it
C7_Witness ==
    /\ InQuery
    /\ caller = "chat_loop"
    /\ outcome = "raised"
    /\ pc = "input"
    /\ FailedTools = 1
    /\ ErrorLines(SorryLine) = 1
    /\ ErrorLines(UnexpectedLine) = 1

\* names declared without an implementation, or implemented without a declaration
NameDifference == (TOOL_SCHEMAS \ tool_mapping) \cup (tool_mapping \ TOOL_SCHEMAS)

MismatchText == "Tool schema and mapping mismatch: "

\* the constructor's first logged error is the registry's
RegistryFailed ==
    /\ pc \in {"init_raised", "startup_failed"}
    /\ Contains(errlog[1], MismatchText)

\* C8: when the declared names and the implemented names differ, in either
\* direction, startup fails and no query is ever served; the registry's
\* error names exactly the differing names, each under its direction; when
\* the two sets are equal the registry raises nothing.
C8_RegistryMismatch ==
    /\ NameDifference # {} =>
          /\ pc \in {"startup", "init_raised", "startup_failed"}
          /\ caller = "none" /\ modelCalls = 0 /\ messages = <<>>
          /\ pc # "startup" =>
                RegistryFailed \/ Contains(errlog[1], "client creation failed")
    /\ RegistryFailed =>
          /\ NameDifference # {}
          /\ \A n \in SchemaNameUniverse : Contains(errlog[1], n) <=> n \in NameDifference
          /\ Contains(errlog[1], "Missing in mapping: ") <=> TOOL_SCHEMAS \ tool_mapping # {}
          /\ Contains(errlog[1], "Missing in schemas: ") <=> tool_mapping \ TOOL_SCHEMAS # {}

\* C8 witness: startup has failed on a schema list that declares a name
\* without implementation and lacks an implemented name
C8_Witness ==
    /\ pc = "startup_failed"
    /\ TOOL_SCHEMAS = {"search_papers", "summarize"}
    /\ RegistryFailed

\* the keys fit the parameters of the implementation
FitsParameters(name, keys) ==
    IF name = "search_papers"
    THEN "topic" \in keys /\ keys \subseteq {"topic", "max_results"}
    ELSE keys = {"paper_id"}

\* C9: a tool name on the registered schema list resolves to its
\* implementation, which is entered when the arguments fit; any other name
\* fails with ToolNotFoundError, whose message lists every available tool,
\* and no implementation is entered.
C9_Lookup ==
    InQuery =>
      \A j \in 1..Len(toolRuns) :
         LET r == toolRuns[j] IN
         /\ r.name \in TOOL_SCHEMAS =>
               /\ r.exc # "ToolNotFoundError"
               /\ FitsParameters(r.name, r.keys) => r.invoked
         /\ r.name \notin TOOL_SCHEMAS =>
               /\ r.exc = "ToolNotFoundError"
               /\ ~r.invoked
               /\ Contains(r.msg, r.name)
               /\ \A n \in TOOL_SCHEMAS : Contains(r.msg, n)

\* C9 witness: a tool that is not registered has been requested
C9_Witness ==
    /\ InQuery
    /\ pc = "append"
    /\ Len(toolRuns) = 1
    /\ toolRuns[1].name = "summarize"
    /\ toolRuns[1].exc = "ToolNotFoundError"

\* the arguments of run r do not fit the parameters of its registered tool
ShapeMismatch(r) == r.name \in tool_mapping /\ ~FitsParameters(r.name, r.keys)

\* C10 as stated: a parameter-shape mismatch is reported with an error of its
\* own, InvalidArgumentsError, not with the error of the other failures.
C10_OwnErrorClass ==
    InQuery =>
      \A j \in 1..Len(toolRuns) :
         ShapeMismatch(toolRuns[j]) => toolRuns[j].exc = "InvalidArgumentsError"

\* C10 amended: a parameter-shape mismatch is reported as ToolExecutionError,
\* the error of every other failure of a tool, with a message of its own
\* that names the tool and the offending key; any other exception of the
\* implementation is reported as ToolExecutionError with the execution-failed
\* message, which names the tool and holds the underlying message.
C10_ArgumentErrors ==
    InQuery =>
      \A j \in 1..Len(toolRuns) :
         LET r == toolRuns[j] IN
         /\ ShapeMismatch(r) =>
               /\ r.exc = "ToolExecutionError"
               /\ ~r.invoked
               /\ r.msg[1] = "Invalid arguments for tool '"
               /\ r.msg[2] = r.name
               /\ \E k \in (r.keys \ {"topic", "max_results", "paper_id"})
                             \cup ({"topic", "paper_id"} \ r.keys) : Contains(r.msg, k)
         /\ (r.name \in tool_mapping /\ ~ShapeMismatch(r) /\ r.exc # "none") =>
               /\ r.exc = "ToolExecutionError"
               /\ r.invoked
               /\ SubSeq(r.msg, 1, 3) = <<"Tool '", r.name, "' execution failed: ">>
               /\ HasSubstring(r.msg, IndexFailureMessage)

\* C10 witness: a tool has been called with a key it does not take
C10_Witness ==
    /\ InQuery
    /\ pc = "append"
    /\ Len(toolRuns) = 1
    /\ toolRuns[1].name = "extract_info"
    /\ toolRuns[1].keys = {"id"}
    /\ toolRuns[1].exc = "ToolExecutionError"

----------------------------------------------------------------------------
(* Properties of the direct tool calls *)

IsSearch == lastCall.op = "search_papers"

IsExtract == lastCall.op = "extract_info"

\* the result cap the call asked for, 5 when it gave none
CapOf(args) == IF "max_results" \in DOMAIN args THEN args.max_results ELSE 5

\* the diagnostic names the tool and holds the validation message m
WrappedValidation(m) ==
    /\ lastCall.raised
    /\ lastCall.exc.type = "ToolExecutionError"
    /\ Contains(lastCall.exc.msg, "search_papers")
    /\ HasSubstring(lastCall.exc.msg, m)
    /\ store = lastCall.before

TopicMsg == <<"Topic cannot be empty">>

CapMsg == <<"max_results must be between 1 and 20">>

\* the search was stopped by something other than the validation: the index
\* failed or the partition file could not be decoded
StoppedByEnvironment ==
    \/ lastCall.answer.fail = "ArxivError"
    \/ HasSubstring(lastCall.exc.msg, DecodeErrorMsg)

IdsIn(st, dir) ==
    IF dir \in DOMAIN st /\ st[dir].file = "ok" THEN DOMAIN st[dir].data ELSE {}

\* the string lists the ids of the papers in their order, separated by ", "
ListsIds(str, papers) ==
    /\ Len(str) = (IF papers = <<>> THEN 0 ELSE 2 * Len(papers) - 1)
    /\ \A i \in 1..Len(papers) : <<str[2 * i - 1]>> = papers[i].id
    /\ \A i \in 1..(Len(papers) - 1) : str[2 * i] = ", "

\* the directory the last search wrote to
WrittenDir == lastWrite.dir

\* C13: a successful search merges into the topic's partition: the ids held
\* before are still held, each retrieved id maps to the record retrieved
\* last for it, the other ids keep their records, no other partition
\* changes, and the call returns the retrieved ids in retrieval order.
C13_AdditiveMerge ==
    (IsSearch /\ ~lastCall.raised) =>
      LET before == lastCall.before
          papers == lastCall.answer.papers
          got == {papers[i].id : i \in 1..Len(papers)}
          dir == WrittenDir
      IN  /\ dir \in DOMAIN store /\ store[dir].file = "ok"
          /\ IdsIn(store, dir) = IdsIn(before, dir) \cup got
          /\ \A i \in 1..Len(papers) :
                (\A j \in (i + 1)..Len(papers) : papers[j].id # papers[i].id) =>
                   store[dir].data[papers[i].id] = papers[i].rec
          /\ \A k \in IdsIn(before, dir) \ got :
                store[dir].data[k] = before[dir].data[k]
          /\ DOMAIN store = DOMAIN before \cup {dir}
          /\ \A d \in DOMAIN before \ {dir} : store[d] = before[d]
          /\ ListsIds(lastCall.value, papers)

\* C13 witness: a search on a partition that held p1 and p2 has retrieved p1
\* anew: p1 has the new record and p2 its old one
C13_Witness ==
    /\ IsSearch /\ ~lastCall.raised
    /\ WrittenDir = DirQC
    /\ lastCall.before = DirQC :> OkFile(BothPapers)
    /\ lastCall.answer = OnePaper
    /\ store[DirQC].data[<<"p1">>] = PaperA
    /\ store[DirQC].data[<<"p2">>] = PaperA
    /\ lastCall.value = <<"p1">>

\* the keys of a paper record as the serialization shows them
FieldLabels ==
    { <<"title: ", "title">>, <<"authors: ", "authors">>, <<"summary: ", "summary">>,
      <<"pdf_url: ", "pdf_url">>, <<"published: ", "published">> }

\* the text shows every field of the record with the record's value
Renders(text, rec) ==
    \A f \in FieldLabels :
       \E i \in 1..(Len(text) - 1) : text[i] = f[1] /\ text[i + 1] = rec[f[2]]

\* the partitions of the store that hold paper id p: the topic directories
\* inside the root whose file holds it
Holders(p) == {d \in iterdir(store) : p \in IdsIn(store, d)}

\* the extraction asks for an id the last successful search has written
ExtractsWritten ==
    /\ IsExtract
    /\ lastCall.args.paper_id \in DOMAIN lastWrite.records

\* C14 as stated: once a record for p has been written under a topic,
\* extraction of p returns that record, whatever other partitions exist and
\* whatever they hold.
C14_RoundTripAnyStore ==
    ExtractsWritten =>
       /\ ~lastCall.raised
       /\ Renders(lastCall.value, lastWrite.records[lastCall.args.paper_id])

\* C14 amended: once a record for p has been written under a topic whose
\* directory is inside the root, extraction of p returns the record that one
\* of the partitions holding p has for p; its fields all equal what was
\* written whenever no partition holds a different record for p, as when no
\* other partition holds p.
C14_RoundTrip ==
    (ExtractsWritten /\ WrittenDir \in iterdir(store)) =>
       LET p == lastCall.args.paper_id IN
       /\ ~lastCall.raised
       /\ \E d \in Holders(p) : Renders(lastCall.value, store[d].data[p])
       /\ (\A d \in Holders(p) : store[d].data[p] = lastWrite.records[p]) =>
              Renders(lastCall.value, lastWrite.records[p])

\* C14 witness: p1 was written under one topic while another partition holds
\* an older record of p1, and extraction has returned the record written
C14_Witness ==
    /\ ExtractsWritten
    /\ lastCall.args.paper_id = <<"p1">>
    /\ WrittenDir = DirQC
    /\ lastWrite.records[<<"p1">>] = PaperA
    /\ DirML \in Holders(<<"p1">>)
    /\ store[DirML].data[<<"p1">>] = PaperB
    /\ Renders(lastCall.value, PaperA)

\* the sentence for an id that was not found
NotFoundSentence(id) == <<"No saved information found for paper ">> \o id \o <<".">>

\* C15 as stated: for every id held by no partition, a blank id included,
\* extraction returns the not-found string and raises nothing.
C15_NotFoundAnyId ==
    (IsExtract /\ Holders(lastCall.args.paper_id) = {}) =>
       /\ ~lastCall.raised
       /\ lastCall.value = NotFoundSentence(lastCall.args.paper_id)

\* C15 amended: for every id held by no partition extraction raises nothing
\* and leaves the store alone; it returns the not-found string, which names
\* the id, unless the id is empty or blank, for which it returns "Paper ID
\* cannot be empty.".
C15_NotFound ==
    (IsExtract /\ Holders(lastCall.args.paper_id) = {}) =>
       LET id == lastCall.args.paper_id IN
       /\ ~lastCall.raised
       /\ store = lastCall.before
       /\ lastCall.value = IF IsBlank(id) THEN <<"Paper ID cannot be empty.">>
                           ELSE NotFoundSentence(id)

\* C15 witness: an id that no partition holds was asked for on a store with
\* a readable and an unreadable partition, and the not-found string came back
C15_Witness ==
    /\ IsExtract
    /\ lastCall.args.paper_id = <<"p3">>
    /\ \E d \in DOMAIN store : store[d].file = "ok"
    /\ \E d \in DOMAIN store : store[d].file = "undecodable"
    /\ lastCall.value = NotFoundSentence(<<"p3">>)

\* the partition file of the directory is missing or corrupt
MissingOrCorrupt(st, dir) ==
    dir \notin DOMAIN st \/ st[dir].file \in {"missing", "bad_json", "undecodable"}

\* C16: a missing or corrupt partition file is read as an empty mapping and
\* never as an error: extraction passes over it and returns a match held by
\* another partition, and a search on its topic succeeds and stores the
\* retrieved records only.
C16_CorruptReadAsEmpty ==
    /\ IsExtract =>
          LET p == lastCall.args.paper_id IN
          /\ ~lastCall.raised
          /\ Holders(p) # {} =>
                \E d \in Holders(p) : Renders(lastCall.value, store[d].data[p])
    /\ (/\ IsSearch
        /\ ~IsBlank(lastCall.args.topic)
        /\ CapOf(lastCall.args) >= 1 /\ CapOf(lastCall.args) <= 20
        /\ lastCall.answer.fail # "ArxivError"
        /\ MissingOrCorrupt(lastCall.before, get_topic_dir(lastCall.args.topic))) =>
          /\ ~lastCall.raised
          /\ IdsIn(store, get_topic_dir(lastCall.args.topic))
                = {lastCall.answer.papers[i].id : i \in 1..Len(lastCall.answer.papers)}

----------------------------------------------------------------------------
(* Properties of the helpers *)

IsFormat == lastCall.op = "format"

IsLoad == lastCall.op = "load_audit_events"

Sentinel == <<"The operation completed but didn't return any results.">>

\* the string form of a value that is no container, as one atom
AtomForm(x) == IF x.kind = "str" THEN x.s[1] ELSE "7"

\* the string holds the elements' string forms in their order, ", " between
\* two neighbours, each element as often as the list holds it
JoinsItems(str, items) ==
    /\ Len(str) = (IF items = <<>> THEN 0 ELSE 2 * Len(items) - 1)
    /\ \A i \in 1..Len(items) : str[2 * i - 1] = AtomForm(items[i])
    /\ \A i \in 1..(Len(items) - 1) : str[2 * i] = ", "

\* the text shows every key of the mapping
KeepsKeys(str, pairs) == \A i \in 1..Len(pairs) : Contains(str, pairs[i].k)

\* the text shows the keys in the order in which the mapping holds them
KeysInOrder(str, pairs) ==
    \A i, j \in 1..Len(pairs) :
       i < j => \E a, b \in 1..Len(str) :
                   a < b /\ str[a] = pairs[i].k /\ str[b] = pairs[j].k

\* two mappings with the same entries: Python calls them equal
EqualMappings(d1, d2) ==
    /\ d1.kind = "dict" /\ d2.kind = "dict"
    /\ {d1.pairs[i] : i \in 1..Len(d1.pairs)} = {d2.pairs[i] : i \in 1..Len(d2.pairs)}

\* what holds of the values that are neither a list nor a mapping
FormatsScalars ==
    /\ lastCall.arg.kind = "None" => lastCall.value = Sentinel
    /\ lastCall.arg.kind \in {"str", "int"} => lastCall.value = <<AtomForm(lastCall.arg)>>

\* C11 as stated: formatting is total and deterministic; None gives the
\* sentinel, a list its elements joined by ", " in order, a mapping a
\* serialization with every key such that two equal mappings render
\* identically, any other value its string form.
C11_EqualMappingsAlike ==
    IsFormat =>
      /\ ~lastCall.raised
      /\ FormatsScalars
      /\ lastCall.arg.kind = "list" => JoinsItems(lastCall.value, lastCall.arg.items)
      /\ lastCall.arg.kind = "dict" => KeepsKeys(lastCall.value, lastCall.arg.pairs)
      /\ (lastCall.prev.made /\ EqualMappings(lastCall.arg, lastCall.prev.arg)) =>
            lastCall.value = lastCall.prev.value

\* C11 amended: formatting is deterministic, and total but for a mapping
\* with a value that JSON cannot serialise, for which it raises; None gives
\* the sentinel, a list its elements' string forms joined by ", " in order
\* and without deduplication, a mapping a serialization that shows every key
\* in the order in which the mapping holds its keys, any other value its
\* string form. The same value formatted twice gives the same string.
C11_Formatting ==
    IsFormat =>
      /\ lastCall.raised <=>
            /\ lastCall.arg.kind = "dict"
            /\ \E i \in 1..Len(lastCall.arg.pairs) : lastCall.arg.pairs[i].v.kind = "set"
      /\ FormatsScalars
      /\ lastCall.arg.kind = "list" => JoinsItems(lastCall.value, lastCall.arg.items)
      /\ (lastCall.arg.kind = "dict" /\ ~lastCall.raised) =>
            /\ KeepsKeys(lastCall.value, lastCall.arg.pairs)
            /\ KeysInOrder(lastCall.value, lastCall.arg.pairs)
      /\ (lastCall.prev.made /\ lastCall.arg = lastCall.prev.arg) =>
            /\ lastCall.value = lastCall.prev.value
            /\ lastCall.raised = lastCall.prev.raised

\* C11 witness: the same two entries were formatted in their two insertion
\* orders, and the two strings differ
C11_Witness ==
    /\ IsFormat
    /\ lastCall.prev.made
    /\ EqualMappings(lastCall.arg, lastCall.prev.arg)
    /\ Len(lastCall.arg.pairs) = 2
    /\ lastCall.arg # lastCall.prev.arg
    /\ ~lastCall.raised
    /\ lastCall.value # lastCall.prev.value

\* C20: loading with a start date and an end date returns exactly the events
\* of the daily files whose date lies in [start, end], and all events when
\* no date is given.
C20_DateRange ==
    IsLoad =>
      LET first == IF lastCall.start_date.given THEN lastCall.start_date.at.day ELSE 0
          last == IF lastCall.end_date.given THEN lastCall.end_date.at.day
                  ELSE LastDay + 1
          wanted == {f \in 1..Len(lastCall.files) :
                        /\ lastCall.files[f].dated
                        /\ lastCall.files[f].day >= first
                        /\ lastCall.files[f].day <= last}
      IN  /\ ~lastCall.raised
          /\ {lastCall.events[i] : i \in 1..Len(lastCall.events)}
                = UNION {{lastCall.files[f].lines[k] :
                             k \in {n \in 1..Len(lastCall.files[f].lines) :
                                       lastCall.files[f].lines[n].json}} : f \in wanted}

----------------------------------------------------------------------------
(* Properties of two sessions side by side *)

\* the ids a session retrieved
GotBy(s) == {sess[s].papers[i].id : i \in 1..Len(sess[s].papers)}

\* both sessions searched the same partition, both loaded it before either
\* saved, and both have returned their ids
BothReadThenBothWrote ==
    /\ \A s \in Sessions : sess[s].at = "done" /\ sess[s].loadedAfter = 0
    /\ sess[1].dir = sess[2].dir

\* C18: when both sessions load the partition and then both save it, the
\* records merged by the session that saved first are gone from the
\* partition, unless the other session retrieved or loaded the same ids,
\* although both searches returned their ids.
C18_LostUpdate ==
    BothReadThenBothWrote =>
      \A first, second \in Sessions :
         (sess[first].savedAfter = 0 /\ sess[second].savedAfter = 1) =>
            /\ IdsIn(store, sess[first].dir)
                  = DOMAIN sess[second].papers_info \cup GotBy(second)
            /\ \A s \in Sessions : sess[s].result = PaperIdsOf(sess[s].papers)

\* C18 witness: the two sessions retrieved different papers for one topic,
\* both returned the id they retrieved, and the partition holds the paper of
\* one of them only
C18_Witness ==
    /\ BothReadThenBothWrote
    /\ sess[1].savedAfter = 0 /\ sess[2].savedAfter = 1
    /\ sess[1].result = <<(<<"p1">>)>>
    /\ sess[2].result = <<(<<"p2">>)>>
    /\ <<"p1">> \notin IdsIn(store, sess[1].dir)
    /\ <<"p2">> \in IdsIn(store, sess[1].dir)

----------------------------------------------------------------------------
(* Properties of the interactive loop *)

\* the two strings are equal when the case of their letters is ignored
EqualIgnoringCase(a, b) ==
    /\ Len(a) = Len(b)
    /\ \A i \in 1..Len(a) : LowerChar(a[i]) = LowerChar(b[i])

\* the line is one of the three words, whatever the case of its letters
IsTerminator(line) ==
    \E w \in { <<"q", "u", "i", "t">>, <<"e", "x", "i", "t">>, <<"q">> } :
        EqualIgnoringCase(line, w)

\* the string is made of spaces and tabs only, or is empty
OnlyWhitespace(line) == \A i \in 1..Len(line) : line[i] \in {" ", "\t"}

\* q is the line without the whitespace at its two ends: the line is q
\* between two runs of whitespace, and q neither starts nor ends with one
IsTrimOf(q, line) ==
    /\ \E i \in 0..Len(line) :
          /\ i + Len(q) <= Len(line)
          /\ OnlyWhitespace(SubSeq(line, 1, i))
          /\ SubSeq(line, i + 1, i + Len(q)) = q
          /\ OnlyWhitespace(SubSeq(line, i + Len(q) + 1, Len(line)))
    /\ q # <<>> => ~OnlyWhitespace(<<q[1]>>) /\ ~OnlyWhitespace(<<q[Len(q)]>>)

\* the strings that are a part of the line, the empty one among them
PartsOf(line) ==
    {SubSeq(line, i, j) : i \in 1..(Len(line) + 1), j \in 0..Len(line)}

\* the loop is about to read a line; user_input' is the line it reads
ReadsLine == pc = "input"

\* C17 as stated: the loop ends exactly when the line it read equals one of
\* the three words ignoring case, and every other line is the text that
\* process_query is called with, unchanged.
C17_Verbatim ==
    [][ReadsLine =>
         /\ (pc' = "loop_end") <=> IsTerminator(user_input')
         /\ ~IsTerminator(user_input') =>
               pc' = "process_query" /\ query' = user_input']_vars

\* C17: the loop ends exactly when the line it read, without the whitespace
\* at its ends, equals one of the three words ignoring case; a line of
\* whitespace only, or an empty one, is answered with a prompt and not
\* forwarded; every other line is forwarded to process_query without the
\* whitespace at its ends and otherwise unchanged.
C17_Loop ==
    [][ReadsLine =>
         \E q \in PartsOf(user_input') :
            /\ IsTrimOf(q, user_input')
            /\ (pc' = "loop_end") <=> IsTerminator(q)
            /\ q = <<>> =>
                  /\ pc' = "input"
                  /\ out' = << <<"Please enter a question or 'quit' to exit.">> >>
                  /\ modelCalls' = 0
            /\ (q # <<>> /\ ~IsTerminator(q)) =>
                  pc' = "process_query" /\ caller' = "chat_loop" /\ query' = q]_vars

\* C17 witness: a line with whitespace at both ends and a capital letter has
\* been read, and process_query is being called with the text in between
C17_Witness ==
    /\ pc = "process_query"
    /\ caller = "chat_loop"
    /\ user_input = <<" ", "H", "i", " ">>
    /\ query = <<"H", "i">>

----------------------------------------------------------------------------
(* Properties of process_query with and without the audit log *)

\* process_query is running
QueryRunning ==
    pc \in {"process_query", "call_api", "scan", "exec_tool", "append", "check",
            "query_except"}

\* the step from this state to the next is a step of process_query for a
\* chatbot whose audit_logger is al and whose audit writes fail or not, the
\* audit trail left out: the same answers of the model and of the tools, and
\* the same model calls, tool executions, messages, printed and logged text,
\* exception and outcome
SameStepFor(al, fails) ==
    \/ ProcessQueryEntryStep(al, fails, FALSE)
    \/ CallApiStep(al, fails, FALSE)
    \/ ScanResponse
    \/ ExecuteToolStep(al, fails, FALSE)
    \/ AppendMessages
    \/ CheckDone
    \/ QueryExceptStep(al, fails, FALSE)

----------------------------------------------------------------------------
(* Properties of one tool dispatch *)

\* the segments of the response now held up to its first tool-use segment
PassSegments == SubSeq(response, 1, FirstToolPos(response))

\* the tool-use segment the pass over the response now held stops at
Dispatched == response[FirstToolPos(response)]

\* C21: one tool dispatch is three steps in this order, each taken once.
\* First the tool is executed, and nothing is appended and no model call is
\* made. Then the assistant message with the segments of this pass, the text
\* segments and the tool-use segment, and right behind it the user message
\* with the tool result for the same invocation id are appended. Then the
\* model is called with that sequence, and when it answers the loop goes on
\* with the new response.
C21_DispatchOrder ==
    [][/\ pc = "exec_tool" =>
            /\ Len(toolRuns') = Len(toolRuns) + 1
            /\ toolRuns'[Len(toolRuns')].id = Dispatched.id
            /\ messages' = messages
            /\ modelCalls' = modelCalls
            /\ pc' = "append"
       /\ pc = "append" =>
            /\ toolRuns' = toolRuns
            /\ modelCalls' = modelCalls
            /\ Len(messages') = Len(messages) + 2
            /\ SubSeq(messages', 1, Len(messages)) = messages
            /\ LET a == messages'[Len(messages) + 1]
                   u == messages'[Len(messages) + 2]
               IN  /\ a.role = "assistant"
                   /\ a.content = PassSegments
                   /\ u.role = "user"
                   /\ Len(u.content) = 1
                   /\ u.content[1].type = "tool_result"
                   /\ u.content[1].tool_use_id = Dispatched.id
                   /\ u.content[1].content = tool_result
            /\ pc' = "call_api"
       /\ (pc = "call_api" /\ modelCalls >= 1) =>
            /\ Len(messages) = 1 + 2 * Len(toolRuns)
            /\ modelCalls = Len(toolRuns)
            /\ modelCalls' = modelCalls + 1
            /\ messages' = messages
            /\ toolRuns' = toolRuns
            /\ pc' # "query_except" =>
                  /\ callNo' = callNo + 1
                  /\ pc' = "check"
                  /\ has_tool_calls'
       /\ (pc = "check" /\ has_tool_calls) => pc' = "scan" /\ response' = response
      ]_vars

\* C21 witness: the response [Text, ToolUse] was dispatched: the tool ran
\* once, the two messages are there, and the second response is held
C21_Witness ==
    /\ pc = "check"
    /\ has_tool_calls
    /\ callNo = 2
    /\ Len(toolRuns) = 1
    /\ Len(messages) = 3
    /\ Len(messages[2].content) = 2
    /\ messages[3].content[1].content = tool_result

----------------------------------------------------------------------------
(* Properties of the model calls *)

\* the names that the two registered tools are declared under
FullSchemaList == {"search_papers", "extract_info"}

\* C22: every model call of a query, the first one and every call after a
\* tool dispatch, is given the configured maximum of output tokens, the full
\* schema list and the whole message sequence as it stands at the call.
C22_EveryCallInFull ==
    [][modelCalls' = modelCalls + 1 =>
          /\ request'.max_tokens = 2048
          /\ request'.tools = FullSchemaList
          /\ Len(request'.messages) = 1 + 2 * modelCalls
          /\ request'.messages = messages
          /\ messages[1].content = query]_vars

\* C22 witness: the third model call of a query has been made, with five
\* messages and both schemas
C22_Witness ==
    /\ modelCalls = 3
    /\ Len(request.messages) = 5
    /\ request.tools = FullSchemaList
    /\ request.max_tokens = 2048

----------------------------------------------------------------------------
(* Properties of the message sequence *)

\* process_query takes up a query that is not blank
QueryStarts == pc = "process_query" /\ pc' = "call_api"

\* C23 as stated: each call of process_query starts from a message sequence
\* of two elements that holds nothing of an earlier query.
C23_TwoElementSeed ==
    [][QueryStarts => Len(messages') = 2]_vars

\* C23: each call of process_query starts from a new message sequence of one
\* element, the user message with the query, whatever the query before has
\* left; every model call of the query is given the messages of this query
\* only, one for the query and two for each of its tool dispatches.
C23_FreshSeed ==
    [][/\ QueryStarts =>
            /\ Len(messages') = 1
            /\ messages'[1].role = "user"
            /\ messages'[1].content = query
       /\ modelCalls' = modelCalls + 1 =>
            /\ Len(request'.messages) = 1 + 2 * Len(toolRuns)
            /\ request'.messages[1].content = query]_vars

\* C23 witness: a query that dispatched a tool has ended, its three messages
\* were left behind, and the next query has made its first model call with
\* one message
C23_Witness ==
    /\ store # EmptyStore
    /\ toolRuns = <<>>
    /\ modelCalls = 1
    /\ Len(request.messages) = 1
    /\ Len(messages) = 1

----------------------------------------------------------------------------
(* Properties of the audit module *)

\* the lines written so far
Written == auditLog.written

\* C24: every event is appended to the audit file named for the calendar day
\* on which it is written, also when the process runs past midnight or a new
\* session is created on a later day in the same process.
C24_DailyRotation ==
    \A i \in 1..Len(Written) : Written[i].file = Written[i].day

\* the positions of the lines of a session, and those of one event type
LinesOf(n) == {i \in 1..Len(Written) : Written[i].session = n}

LinesOfType(n, type) == {i \in LinesOf(n) : Written[i].event_type = type}

\* C30: under any sequence of get_audit_logger and cleanup_audit_logger
\* calls, a get_audit_logger call made while a logger is installed returns
\* that logger, with its session, and starts nothing; every session has
\* written exactly one session_start, before anything else of it; a
\* cleanup_audit_logger call made while no logger is installed writes
\* nothing, and no session has more than one session_end.
C30_SessionLifecycle ==
    /\ [](\A n \in 1..auditLog.sessions :
            /\ Cardinality(LinesOfType(n, "session_start")) = 1
            /\ \A i \in LinesOfType(n, "session_start"), j \in LinesOf(n) : i <= j
            /\ Cardinality(LinesOfType(n, "session_end")) <= 1
            /\ \A i \in LinesOfType(n, "session_end") : auditLog.global # n)
    /\ [][/\ (auditLog'.last = "get" /\ auditLog.global # 0) =>
               /\ auditLog'.returned = auditLog.global
               /\ auditLog'.global = auditLog.global
               /\ auditLog'.sessions = auditLog.sessions
               /\ auditLog'.written = auditLog.written
          /\ (auditLog'.last = "cleanup" /\ auditLog.global = 0) =>
               auditLog'.written = auditLog.written
          /\ (auditLog'.last = "cleanup") => auditLog'.global = 0
         ]_vars

\* C30 witness: two sessions were started and cleaned up one after the other,
\* and each has its one session_start and its one session_end
C30_Witness ==
    /\ auditLog.sessions = 2
    /\ auditLog.global = 0
    /\ auditLog.last = "cleanup"
    /\ \A n \in 1..2 : Cardinality(LinesOfType(n, "session_end")) = 1
    /\ Written[1].event_type = "session_start"

----------------------------------------------------------------------------
(* The shape of the message sequence *)

\* the message sequence of the running query has been started
Seeded == InQuery /\ pc # "process_query"

\* the dispatches of the running query that have appended their messages
DispatchesDone == IF pc = "append" THEN Len(toolRuns) - 1 ELSE Len(toolRuns)

\* the tool-use segments of a segment list
ToolUsesIn(content) == {i \in 1..Len(content) : content[i].type = "tool_use"}

\* C25: once a query has its message sequence, after k tool dispatches the
\* sequence has 1 + 2k messages; it starts with the user message of the
\* query and the roles alternate; every assistant message holds exactly one
\* tool-use segment, as its last segment, and the message behind it is a
\* user message with exactly one tool result, for the id of that segment;
\* and no step of the query changes or removes a message that is there.
C25_MessageShape ==
    /\ [](Seeded =>
            /\ Len(messages) = 1 + 2 * DispatchesDone
            /\ messages[1] = [role |-> "user", content |-> query]
            /\ \A m \in 1..Len(messages) :
                  messages[m].role = (IF m % 2 = 1 THEN "user" ELSE "assistant")
            /\ \A m \in 2..Len(messages) :
                  m % 2 = 0 =>
                     LET c == messages[m].content
                         u == messages[m + 1].content
                     IN  /\ ToolUsesIn(c) = {Len(c)}
                         /\ Len(u) = 1
                         /\ u[1].type = "tool_result"
                         /\ u[1].tool_use_id = c[Len(c)].id)
    /\ [][(Seeded /\ Seeded' /\ query' = query /\ modelCalls' >= modelCalls) =>
             /\ Len(messages') >= Len(messages)
             /\ SubSeq(messages', 1, Len(messages)) = messages]_vars

\* C25 witness: two dispatches have been made, the second for a response
\* with a text segment before its tool-use segment: five messages
C25_Witness ==
    /\ Seeded
    /\ Len(toolRuns) = 2
    /\ Len(messages) = 5
    /\ Len(messages[4].content) = 2
    /\ messages[5].content[1].tool_use_id = messages[4].content[2].id

----------------------------------------------------------------------------
(* Termination of the response loop *)

\* C26: a pass of the response loop that has scanned a response without a
\* tool-use segment ends the query, whatever else the response holds, so that the
\* query ends as soon as the model stops asking for tools; and a pass that
\* does not end the query has made a new model call, so that the next pass
\* scans a new response and not the same one again.
C26_Terminates ==
    [][(pc = "check" /\ ~has_tool_calls /\ ~HasToolUse(response)) =>
          /\ outcome' = "returned"
          /\ pc' # "scan"]_vars

----------------------------------------------------------------------------
(* What a failed search leaves behind *)

\* the partition file of a directory, a directory that does not exist or
\* holds no file alike
PartitionOf(st, dir) == IF dir \in DOMAIN st THEN st[dir] ELSE NoFile

\* the arguments of the last call do not pass the validation
FailsValidation ==
    \/ OnlyWhitespace(lastCall.args.topic)
    \/ CapOf(lastCall.args) < 1
    \/ CapOf(lastCall.args) > 20

\* C27: a search that ends with an error, for an empty topic, a result cap
\* out of range or a failure of the index while the papers are retrieved,
\* leaves the records of every partition as they were before the call; a
\* call that fails the validation fails before the index is asked anything.
C27_FailedSearchFrame ==
    (IsSearch /\ lastCall.raised) =>
       /\ \A dir \in DOMAIN store \cup DOMAIN lastCall.before :
             PartitionOf(store, dir) = PartitionOf(lastCall.before, dir)
       /\ FailsValidation => lastCall.answer = NoAnswer /\ store = lastCall.before

\* C27 witness: the index failed after it had given one paper, for a topic
\* whose partition holds two others, and the partition is as it was
C27_Witness ==
    /\ IsSearch
    /\ lastCall.raised
    /\ lastCall.answer.fail = "ArxivError"
    /\ Len(lastCall.answer.papers) = 1
    /\ lastCall.before = DirQC :> OkFile(BothPapers)
    /\ store[DirQC] = OkFile(BothPapers)

\* C28 as stated: every successful search writes its partition file in a
\* directory that is a direct child of the root, and every id it returned is
\* found by an extraction made afterwards.
C28_WritesUnderRoot ==
    /\ (IsSearch /\ ~lastCall.raised) => WrittenDir \in iterdir(store)
    /\ ExtractsWritten =>
          /\ ~lastCall.raised
          /\ lastCall.value # NotFoundText(lastCall.args.paper_id)

\* C29 as stated: whenever the construction of the chatbot fails, at the
\* client, at the registry or later, what the constructor raises is a
\* ChatbotError whose message carries the message of the underlying error.
C29_ConstructorRaisesChatbotError ==
    pc = "init_raised" =>
       /\ error.type = "ChatbotError"
       /\ error.msg = errlog[Len(errlog)]
       /\ \/ Contains(error.msg, "client creation failed")
          \/ Contains(error.msg, MismatchText)
          \/ Contains(error.msg, "cannot create audit directory")

====
